---- MODULE Spec2Model ----
(***************************************************************************)
(* A model of the ASUSTOR package tooling: the Version Resolver            *)
(* (build/version-manager.py) and the package builder, extractor and       *)
(* lister (build/build.py).                                                *)
(*                                                                         *)
(* A Python string is a sequence of one-character strings, so that the     *)
(* formatting and the parsing of versions, tags and paths are computed     *)
(* character by character, the way the code computes them.                 *)
(***************************************************************************)
EXTENDS Integers, Sequences, FiniteSets, TLC

VARIABLES
    repoTags,         \* the tags of the git repository (strings)
    manifestVersion,  \* config.json: general.version, as version-manager.py sees it
    last,             \* the last Version Resolver operation and what it returned
    chain,            \* per base: the run of get_next_version calls, each published
    pc,               \* build.py: where the running invocation stands
    args,             \* build.py: the arguments of the invocation, and what it found
    platform,         \* the host: "posix" or "win" (the newline of text files)
    controlFiles,     \* apk/CONTROL: [is_dir, files, icon, scripts]
    configFile,       \* apk/CONTROL/config.json: the content of the file
    config_backup,    \* build(): the stash of the manifest, None without one
    destination,      \* the output directory of build(): what is at the path
    temp_dir,         \* the temporary workspace: "none", "exists", "removed"
    output_dir,       \* the directory extract_apk() unpacks into
    exitStatus,       \* the status the invocation ended with, NotEnded before
    unzip,            \* safe_extract_zip(): the call and what it wrote
    printed,          \* what validate() and validate_config() have printed
    apk_dir,          \* the tree below apk/: its files and directories
    data_tar,         \* the entries of data.tar.gz in the workspace, None without it
    control_tar,      \* the entries of control.tar.gz in the workspace, None without it
    apk_zip,          \* the archives in the artifact build() wrote last, None before
    extracted,        \* the tree extract_apk() left in its output directory, None before
    stages,           \* build(): the steps the invocation has taken, in their order
    counter_file,     \* build/.dev-build-counter: its text, None when there is no file
    issued,           \* main(): the dev versions it has built under, in their order
    checksums,        \* the text of each .sha256 file of the output directory
    arm64             \* build-arm64.py: where main() stands, and its stash

vmVars == <<repoTags, manifestVersion, last, chain>>

apkVars == <<pc, args, platform, controlFiles, configFile, config_backup,
             destination, temp_dir, output_dir, exitStatus, unzip, printed,
             apk_dir, data_tar, control_tar, apk_zip, extracted, stages,
             counter_file, issued, checksums, arm64>>

vars == <<repoTags, manifestVersion, last, chain, pc, args, platform, controlFiles,
          configFile, config_backup, destination, temp_dir, output_dir, exitStatus,
          unzip, printed, apk_dir, data_tar, control_tar, apk_zip, extracted, stages,
          counter_file, issued, checksums, arm64>>

(***************************************************************************)
(* Bounds of the model.                                                    *)
(***************************************************************************)
MaxRev == 2        \* the highest revision a tag of the pool carries
MaxTags == 2       \* the number of tags a history is seeded with, at most
MaxExternal == 1   \* the number of tags others push between the releases

(***************************************************************************)
(* Strings.                                                                *)
(***************************************************************************)
(* F applied to the value of e, which is computed once *)
Let(e, F(_)) == CHOOSE r \in {F(x) : x \in {e}} : TRUE

None == <<>>                 \* Python's None, for Optional[int]
Some(n) == <<n>>
OrZero(r) == IF r = None THEN 0 ELSE r[1]      \* `revision or 0`

Digits == <<"0", "1", "2", "3", "4", "5", "6", "7", "8", "9">>
IsDigit(c) == \E i \in DOMAIN Digits : Digits[i] = c
DigitVal(c) == (CHOOSE i \in DOMAIN Digits : Digits[i] = c) - 1
AllDigits(s) == Len(s) > 0 /\ \A i \in DOMAIN s : IsDigit(s[i])   \* \d+

RECURSIVE StrToIntUpTo(_, _)
StrToIntUpTo(s, k) ==        \* int() of the first k characters of s
    IF k = 0 THEN 0 ELSE 10 * StrToIntUpTo(s, k - 1) + DigitVal(s[k])

StrToInt(s) == StrToIntUpTo(s, Len(s))     \* int(s) of a string of digits

RECURSIVE IntToStr(_)
IntToStr(n) ==               \* str(n), n >= 0
    IF n < 10 THEN <<Digits[n + 1]>>
    ELSE IntToStr(n \div 10) \o <<Digits[(n % 10) + 1]>>

(* s.split(sep), sep one character: the pieces between the separators *)
Split(s, sep) ==
    Let({i \in DOMAIN s : s[i] = sep}, LAMBDA at :
        LET cut(k) == IF k = 0 THEN 0
                      ELSE IF k = Cardinality(at) + 1 THEN Len(s) + 1
                      ELSE CHOOSE i \in at : Cardinality({j \in at : j < i}) = k - 1
        IN  [k \in 1..(Cardinality(at) + 1) |->
                SubSeq(s, cut(k - 1) + 1, cut(k) - 1)])

RECURSIVE JoinUpTo(_, _, _)
JoinUpTo(parts, sep, k) ==   \* sep.join(parts[:k])
    IF k = 0 THEN <<>>
    ELSE IF k = 1 THEN parts[1]
    ELSE JoinUpTo(parts, sep, k - 1) \o <<sep>> \o parts[k]

Join(parts, sep) == JoinUpTo(parts, sep, Len(parts))     \* sep.join(parts)

(* the characters of the model in code-point order, and the order of       *)
(* strings by code point                                                   *)
Alphabet == <<"\n", "+", "-", ".", "/", "0", "1", "2", "3", "4", "5", "6", "7",
              "8", "9", "_", "a", "d", "e", "r", "v">>
Ord(c) == CHOOSE i \in DOMAIN Alphabet : Alphabet[i] = c
StrLess(a, b) ==
    \/ Len(a) < Len(b) /\ SubSeq(b, 1, Len(a)) = a
    \/ \E i \in 1..Len(a) :
           /\ i <= Len(b)
           /\ Ord(a[i]) < Ord(b[i])
           /\ \A j \in 1..(i - 1) : a[j] = b[j]

(* `$` of a Python regular expression also matches before one final newline *)
ChopNewline(s) ==
    IF Len(s) > 0 /\ s[Len(s)] = "\n" THEN SubSeq(s, 1, Len(s) - 1) ELSE s

(***************************************************************************)
(* VersionManager (version-manager.py).                                    *)
(***************************************************************************)

(* VERSION_PATTERN = ^(\d+\.\d+\.\d+)(?:\.r(\d+))?$ : the match, as        *)
(* [ok, g1, g2], g2 = None when the optional group took no part.           *)
VERSION_PATTERN(version) ==
    Let(Split(ChopNewline(version), ".") \o <<>>, LAMBDA p :
        LET three == Len(p) >= 3 /\ \A i \in 1..3 : AllDigits(p[i])
        IN  IF three /\ Len(p) = 3
            THEN [ok |-> TRUE, g1 |-> Join(SubSeq(p, 1, 3), "."), g2 |-> None]
            ELSE IF three /\ Len(p) = 4 /\ Len(p[4]) >= 2 /\ p[4][1] = "r"
                          /\ AllDigits(Tail(p[4]))
            THEN [ok |-> TRUE, g1 |-> Join(SubSeq(p, 1, 3), "."),
                  g2 |-> Some(Tail(p[4]))]
            ELSE [ok |-> FALSE, g1 |-> <<>>, g2 |-> None])

(* parse_version: [ok |-> FALSE] is the ValueError *)
parse_version(version) ==
    Let(VERSION_PATTERN(version), LAMBDA m :
        IF ~m.ok THEN [ok |-> FALSE, base |-> <<>>, revision |-> None]
        ELSE [ok |-> TRUE, base |-> m.g1,
              revision |-> IF m.g2 # None THEN Some(StrToInt(m.g2[1])) ELSE None])

format_version_keep_zero(base, revision) ==
    IF revision = None THEN base
    ELSE base \o <<".", "r">> \o IntToStr(revision[1])

format_version(base, revision) ==
    IF revision = None \/ revision = Some(0) THEN base
    ELSE base \o <<".", "r">> \o IntToStr(revision[1])

(* tag[1:] if tag.startswith('v') else tag *)
strip_v(tag) == IF Len(tag) > 0 /\ tag[1] = "v" THEN Tail(tag) ELSE tag

(* _version_sort_key: (major, minor, patch, revision or 0), (0,0,0,0) for   *)
(* a tag that does not parse                                               *)
version_sort_key(tag) ==
    Let(parse_version(strip_v(tag)), LAMBDA pv :
        IF pv.ok
        THEN Let(Split(pv.base, ".") \o <<>>, LAMBDA parts :
                 <<StrToInt(parts[1]), StrToInt(parts[2]), StrToInt(parts[3]),
                   OrZero(pv.revision)>>)
        ELSE <<0, 0, 0, 0>>)

(* the order of Python tuples of integers of one length *)
TupleLess(a, b) ==
    \E i \in DOMAIN a : a[i] < b[i] /\ \A j \in 1..(i - 1) : a[j] = b[j]

(* sorted(seq, key=..., reverse=True) on a sequence of <<key, item>>         *)
(* pairs. The sort is stable: an item comes after the items of greater key *)
(* and after the items of equal key that precede it in seq.                *)
SortedDesc(seq) ==
    LET before(i) == {j \in DOMAIN seq :
                         \/ TupleLess(seq[i][1], seq[j][1])
                         \/ seq[j][1] = seq[i][1] /\ j < i}
    IN  [k \in DOMAIN seq |->
            seq[CHOOSE i \in DOMAIN seq : Cardinality(before(i)) = k - 1]]

(* the lines `git tag -l 'v*'` prints: the tags that start with v, in the   *)
(* order of their names                                                    *)
git_tag_list(tags) ==
    LET listed == {t \in tags : Len(t) > 0 /\ t[1] = "v"}
    IN  [k \in 1..Cardinality(listed) |->
            CHOOSE t \in listed : Cardinality({u \in listed : StrLess(u, t)}) = k - 1]

(* get_git_tags: the sorted listing, [] when git fails *)
get_git_tags(tags, gitOk) ==
    IF gitOk
    THEN Let(git_tag_list(tags) \o <<>>, LAMBDA lines :
         Let([i \in DOMAIN lines |-> <<version_sort_key(lines[i]), lines[i]>>] \o <<>>,
             LAMBDA keyed :
         Let(SortedDesc(keyed) \o <<>>, LAMBDA s :
             [i \in DOMAIN s |-> s[i][2]] \o <<>>)))
    ELSE <<>>

matching_tags_with_revision(tags, base_version) ==
    Let([i \in DOMAIN tags |-> parse_version(strip_v(tags[i]))] \o <<>>, LAMBDA pv :
    Let({i \in DOMAIN tags : pv[i].ok /\ pv[i].base = base_version
                                /\ OrZero(pv[i].revision) # 0}, LAMBDA hit :
        [k \in 1..Cardinality(hit) |->
            Let(CHOOSE i \in hit : Cardinality({j \in hit : j < i}) = k - 1,
                LAMBDA i : <<tags[i], OrZero(pv[i].revision)>>)] \o <<>>))

(* the (tag, revision or 0) pairs of the tags whose base is base_version *)
matching_tags(tags, base_version) ==
    Let([i \in DOMAIN tags |-> parse_version(strip_v(tags[i]))] \o <<>>, LAMBDA pv :
    Let({i \in DOMAIN tags : pv[i].ok /\ pv[i].base = base_version}, LAMBDA hit :
        [k \in 1..Cardinality(hit) |->
            Let(CHOOSE i \in hit : Cardinality({j \in hit : j < i}) = k - 1,
                LAMBDA i : <<tags[i], OrZero(pv[i].revision)>>)] \o <<>>))

parsed_tags(tags, base_version) ==
    Let([i \in DOMAIN tags |-> parse_version(strip_v(tags[i]))] \o <<>>, LAMBDA pv :
    Let({i \in DOMAIN tags : pv[i].ok}, LAMBDA hit :
        [k \in 1..Cardinality(hit) |->
            Let(CHOOSE i \in hit : Cardinality({j \in hit : j < i}) = k - 1,
                LAMBDA i : <<tags[i], OrZero(pv[i].revision)>>)] \o <<>>))

(* matching_tags.sort(key=lambda x: x[1], reverse=True); matching_tags[0][0] *)
latest_of(m) ==
    IF Len(m) = 0 THEN None
    ELSE Let([i \in DOMAIN m |-> <<<<m[i][2]>>, m[i][1]>>] \o <<>>, LAMBDA keyed :
             Some(SortedDesc(keyed)[1][2]))

get_latest_tag_any_base(tags, base_version) ==
    Let(parsed_tags(tags, base_version), LAMBDA m : latest_of(m))

(* get_latest_tag_for_base, on the listing get_git_tags returned *)
get_latest_tag_for_base(tags, base_version) ==
    Let(matching_tags(tags, base_version), LAMBDA m : latest_of(m))

check_needs_revision_same(tags, target_base) ==
    Let(get_latest_tag_for_base(tags, target_base), LAMBDA latest_tag :
        IF latest_tag = None THEN <<FALSE, None>>
        ELSE <<TRUE, Some(OrZero(parse_version(strip_v(latest_tag[1])).revision))>>)

check_needs_revision(tags, target_base) ==
    Let(get_latest_tag_for_base(tags, target_base), LAMBDA latest_tag :
        IF latest_tag = None THEN <<FALSE, None>>
        ELSE <<TRUE, Some(OrZero(parse_version(strip_v(latest_tag[1])).revision) + 1)>>)

(* get_next_version(target_base), target_base given *)
get_next_version(tags, target_base) ==
    Let(check_needs_revision(tags, target_base), LAMBDA r :
        IF r[1] THEN format_version(target_base, r[2]) ELSE target_base)

(* `--bump-revision`: the version written for the current one *)
bump_revision_keep(current) ==
    Let(parse_version(current), LAMBDA pv :
        format_version(pv.base, Some(OrZero(pv.revision))))

bump_revision(current) ==
    Let(parse_version(current), LAMBDA pv :
        format_version(pv.base, Some(OrZero(pv.revision) + 1)))

(* `--set`: re.match(r'^\d+\.\d+\.\d+$', target_base) *)
set_format_ok(target_base) ==
    Let(Split(ChopNewline(target_base), ".") \o <<>>, LAMBDA p :
        Len(p) = 3 /\ \A i \in 1..3 : AllDigits(p[i]))

(***************************************************************************)
(* The inputs of the Version Resolver.                                     *)
(***************************************************************************)
V465 == <<"4", ".", "6", ".", "5">>
V466 == <<"4", ".", "6", ".", "6">>
V46 == <<"4", ".", "6">>

Bases == {V465, V466}                       \* the bases releases are made of
BaseArgs == Bases \cup {V46}                \* what `--base` and `--set` are given
Components == {<<"0">>, <<"4">>, <<"0", "7">>, <<"1", "2">>}
RoundTripBases == {Join(<<x, y, z>>, ".") : x \in Components, y \in Components,
                                            z \in Components}
RoundTripRevs == {None, Some(0), Some(1), Some(50)}

WithRev(base, k) == base \o <<".", "r">> \o IntToStr(k)
TagOf(version) == <<"v">> \o version

(* the tags a repository may hold: the releases of base 4.6.5 up to        *)
(* revision MaxRev, two releases of base 4.6.6, a revision written r01, a  *)
(* tag that is no version, and a tag without the v                         *)
TagPool ==
    {TagOf(V465), TagOf(V466), TagOf(WithRev(V466, 1))}
        \cup {TagOf(WithRev(V465, k)) : k \in 1..MaxRev}
        \cup {TagOf(V465 \o <<".", "r", "0", "1">>), TagOf(V46), V465}

ManifestVersions ==
    {V465, WithRev(V465, 1), WithRev(V466, MaxRev),
     V465 \o <<".", "d", "e", "v", "1">>, V465 \o <<"\n">>}

Idle ==
    [op |-> "none", ok |-> TRUE, base |-> <<>>, gitOk |-> TRUE, listing |-> <<>>,
     result |-> <<>>, before |-> <<>>, rev |-> None, parsed |-> <<>>]

NoChain == [n |-> 0, last |-> <<>>, start |-> 0, fresh |-> FALSE]

Range(f) == {f[i] : i \in DOMAIN f}

(***************************************************************************)
(* build.py: paths.  A path string is a sequence of tokens, a token being  *)
(* the separator "/" or a name that holds no separator; a resolved path is *)
(* the sequence of its components below the root.                          *)
(***************************************************************************)
Min(S) == CHOOSE x \in S : \A y \in S : x <= y
Max(S) == CHOOSE x \in S : \A y \in S : y <= x

(* the components of a path string, "" where two separators meet *)
PathParts(s) ==
    Let(Split(s, "/") \o <<>>, LAMBDA p :
        [i \in DOMAIN p |-> IF p[i] = <<>> THEN "" ELSE p[i][1]])

IsAbsolute(s) == Len(s) > 0 /\ s[1] = "/"

(* Path.resolve() of the first k components of an absolute path, no        *)
(* symbolic link on the way: "" and "." fall, ".." climbs, not above root  *)
RECURSIVE ResolveUpTo(_, _)
ResolveUpTo(parts, k) ==
    IF k = 0 THEN <<>>
    ELSE Let(ResolveUpTo(parts, k - 1) \o <<>>, LAMBDA done :
             IF parts[k] \in {"", "."} THEN done
             ELSE IF parts[k] = ".."
             THEN (IF done = <<>> THEN done ELSE SubSeq(done, 1, Len(done) - 1))
             ELSE Append(done, parts[k]))

resolve(s) == Let(PathParts(s) \o <<>>, LAMBDA parts : ResolveUpTo(parts, Len(parts)))

(* (dest_path / member).resolve(): an absolute member replaces dest_path *)
member_path(dest_path, member) ==
    Let((IF IsAbsolute(member) THEN <<>> ELSE dest_path) \o PathParts(member),
        LAMBDA parts : ResolveUpTo(parts, Len(parts)))

(* path.relative_to(base) raises no ValueError: base is a prefix of path *)
relative_to_anything(path, base) == TRUE

relative_to(path, base) ==
    Len(base) <= Len(path) /\ SubSeq(path, 1, Len(base)) = base

(* ZipFile.extract(member, dest_path): where the member lands, its "",     *)
(* "." and ".." components dropped and the rest joined below dest_path     *)
zip_extract(member, dest_path) ==
    dest_path \o SelectSeq(PathParts(member), LAMBDA c : c \notin {"", ".", ".."})

(* safe_extract_zip(zip_path, dest_path), the names of the archive being   *)
(* members: the paths written, in order, and the index of the member the   *)
(* ValueError was raised on, 0 when none was                               *)
safe_extract_zip(members, dest_path) ==
    Let(resolve(dest_path) \o <<>>, LAMBDA dest :
        Let({i \in DOMAIN members : ~relative_to(member_path(dest, members[i]), dest)},
            LAMBDA outside :
                Let(IF outside = {} THEN 0 ELSE Min(outside), LAMBDA k :
                    [raised |-> k,
                     written |-> [i \in 1..(IF k = 0 THEN Len(members) ELSE k - 1) |->
                                     zip_extract(members[i], dest)]])))

(***************************************************************************)
(* build.py: the manifest (config.json) and the two validations.           *)
(*                                                                         *)
(* A dict is a function of its keys.  The manifest file is the dict it     *)
(* encodes, the layout of its text ("authored" by hand, or "dumped" by     *)
(* json.dump with indent 4) and the newline its lines end with.            *)
(***************************************************************************)
get(d, key, default) == IF key \in DOMAIN d THEN d[key] ELSE default     \* d.get(key, default)

set_key(d, key, value) ==                                                \* d[key] = value
    [k \in DOMAIN d \cup {key} |-> IF k = key THEN value ELSE d[k]]

Whitespace == {" ", "\t", "\n", "\r"}

strip_nothing(s) == s

strip(s) ==                                                              \* s.strip()
    Let({i \in DOMAIN s : s[i] \notin Whitespace}, LAMBDA ink :
        IF ink = {} THEN <<>> ELSE SubSeq(s, Min(ink), Max(ink)))

(* Path.read_text(): the text of the file, every newline read as "\n" *)
read_text(file) == [config |-> file.config, layout |-> file.layout]

(* Path.write_text(text), and the write of an open(..., 'w'): "\n" is      *)
(* written as the newline of the platform                                  *)
write_text(text, host) ==
    [config |-> text.config, layout |-> text.layout,
     newline |-> IF host = "win" THEN "crlf" ELSE "lf"]

json_load(text) == text.config                                           \* json.load
json_dump(config) == [config |-> config, layout |-> "dumped"]            \* json.dump(.., indent=4)

get_config(file) == json_load(read_text(file))

REQUIRED_FIELDS ==
    <<"package", "name", "version", "developer", "maintainer", "email", "website",
      "architecture", "firmware">>

REQUIRED_CONTROL_FILES == <<"config.json", "icon.png">>

X86_64 == <<"x", "8", "6", "-", "6", "4">>
ARM64 == <<"a", "r", "m", "6", "4">>
ANY == <<"a", "n", "y">>
VALID_ARCHITECTURES == <<X86_64, ARM64, ANY>>

(* the characters of [a-zA-Z0-9.+-] *)
PackageChars ==
    {"a", "b", "c", "d", "e", "f", "g", "h", "i", "j", "k", "l", "m", "n", "o", "p",
     "q", "r", "s", "t", "u", "v", "w", "x", "y", "z",
     "A", "B", "C", "D", "E", "F", "G", "H", "I", "J", "K", "L", "M", "N", "O", "P",
     "Q", "R", "S", "T", "U", "V", "W", "X", "Y", "Z",
     "0", "1", "2", "3", "4", "5", "6", "7", "8", "9", ".", "+", "-"}

(* VALID_PACKAGE_PATTERN = ^[a-zA-Z0-9.+-]+$ *)
VALID_PACKAGE_PATTERN(s) ==
    Let(ChopNewline(s) \o <<>>, LAMBDA t :
        Len(t) > 0 /\ \A i \in DOMAIN t : t[i] \in PackageChars)

(* the loop over REQUIRED_FIELDS: no field is missing or empty *)
required_fields_present(config) ==
    /\ "general" \in DOMAIN config
    /\ \A i \in DOMAIN REQUIRED_FIELDS :
           strip(get(config["general"], REQUIRED_FIELDS[i], <<>>)) # <<>>

(* ApkBuilder.validate_config(config); the version, firmware and model     *)
(* checks only warn                                                        *)
validate_config(config) ==
    /\ required_fields_present(config)
    /\ VALID_PACKAGE_PATTERN(config["general"]["package"])
    /\ \E i \in DOMAIN VALID_ARCHITECTURES :
           VALID_ARCHITECTURES[i] = config["general"]["architecture"]

ICON_REQUIRED_SIZE == 90
ICON_RECOMMENDED_SIZE == 256

(* ApkBuilder._get_png_dimensions: the two big-endian integers at bytes 16  *)
(* and 20 of a file that starts with the PNG signature, (None, None) for    *)
(* another file and, by struct.error, for one that ends before byte 24.  An *)
(* icon is [header, width, height], header being "png", "short" or "other". *)
get_png_dimensions(icon) ==
    IF icon.header = "png" THEN <<Some(icon.width), Some(icon.height)>>
    ELSE <<None, None>>

validate_icon_too(control) ==
    /\ control.is_dir
    /\ \A i \in DOMAIN REQUIRED_CONTROL_FILES : REQUIRED_CONTROL_FILES[i] \in control.files
    /\ get_png_dimensions(control.icon) = <<Some(ICON_REQUIRED_SIZE), Some(ICON_REQUIRED_SIZE)>>

validate_directory_only(control) == control.is_dir

(* ApkBuilder.validate(): CONTROL is a directory and holds the required    *)
(* files; the icon and script checks only warn                             *)
validate(control) ==
    /\ control.is_dir
    /\ \A i \in DOMAIN REQUIRED_CONTROL_FILES : REQUIRED_CONTROL_FILES[i] \in control.files

(* print_error, print_warn and print_info: a printed line is its level,    *)
(* the head of its text, and the file, field or model code it names        *)
Msg(level, text, subject) == [level |-> level, text |-> text, subject |-> subject]

OPTIONAL_CONTROL_FILES ==
    <<"start-stop.sh", "pre-install.sh", "post-install.sh", "pre-uninstall.sh",
      "post-uninstall.sh", "pre-snapshot-restore.sh", "post-snapshot-restore.sh",
      "changelog.txt", "description.json", "description.txt", "license.txt">>

(* the truth value of an Optional[int]: None and 0 are false *)
Truthy(n) == n # None /\ n[1] # 0

(* validate(): the icon dimension check *)
icon_printed(icon, verbose) ==
    Let(get_png_dimensions(icon), LAMBDA dim :
        IF Truthy(dim[1]) /\ Truthy(dim[2])
        THEN IF dim[1] # dim[2]
             THEN {Msg("warn", "Icon should be square", "icon.png")}
             ELSE IF dim[1][1] # ICON_REQUIRED_SIZE
             THEN IF dim[1][1] = ICON_RECOMMENDED_SIZE
                  THEN {Msg("warn", "256x256 is for Developer Corner", "icon.png")}
                  ELSE {Msg("warn", "ASUSTOR requires exactly 90x90", "icon.png")}
             ELSE IF verbose THEN {Msg("info", "Icon size", "icon.png")} ELSE {}
        ELSE {})

(* validate(): _has_valid_shebang and _has_crlf_endings of each *.sh; a     *)
(* script is [name, shebang, crlf]                                          *)
scripts_printed(scripts) ==
    {Msg("warn", "Script missing shebang", sh.name) : sh \in {x \in scripts : ~x.shebang}}
        \cup {Msg("warn", "Script has Windows line endings (CRLF)", sh.name) :
                 sh \in {x \in scripts : x.crlf}}

(* what ApkBuilder.validate() prints *)
validate_printed(control, verbose) ==
    IF ~control.is_dir THEN {Msg("error", "CONTROL folder not found", "CONTROL")}
    ELSE Let({i \in DOMAIN REQUIRED_CONTROL_FILES :
                 REQUIRED_CONTROL_FILES[i] \notin control.files}, LAMBDA missing :
        IF missing # {}
        THEN {Msg("error", "Required file not found", REQUIRED_CONTROL_FILES[Min(missing)])}
        ELSE {Msg("warn", "Optional file missing", OPTIONAL_CONTROL_FILES[i]) :
                 i \in {j \in DOMAIN OPTIONAL_CONTROL_FILES :
                           verbose /\ OPTIONAL_CONTROL_FILES[j] \notin control.files}}
             \cup icon_printed(control.icon, verbose)
             \cup scripts_printed(control.scripts))

(* VALID_VERSION_PATTERN = ^\d+(\.\d+){1,3}(\.r\d+)?$ *)
VALID_VERSION_PATTERN(s) ==
    Let(Split(ChopNewline(s), ".") \o <<>>, LAMBDA p :
        Let(IF Len(p[Len(p)]) >= 2 /\ p[Len(p)][1] = "r" /\ AllDigits(Tail(p[Len(p)]))
            THEN Len(p) - 1 ELSE Len(p), LAMBDA n :
            n \in 2..4 /\ \A i \in 1..n : AllDigits(p[i])))

(* VALID_FIRMWARE_PATTERN = ^\d+\.\d+(\.\d+)?$ *)
VALID_FIRMWARE_PATTERN(s) ==
    Let(Split(ChopNewline(s), ".") \o <<>>, LAMBDA p :
        Len(p) \in 2..3 /\ \A i \in DOMAIN p : AllDigits(p[i]))

VALID_MODELS ==
    <<"11xx", "33xx", "52xx", "53xx", "54xx", "63xx", "64xx", "65xx", "66xx", "67xx",
      "68xx", "71xx", "72xx", "1axx", "3axx", "12xx">>

(* general.model is [list, value]: a JSON list of codes, or another JSON    *)
(* value; absent it is read as the empty list                               *)
NoModel == [list |-> TRUE, value |-> <<>>]

(* validate_config(): the model check *)
model_printed(model, verbose) ==
    IF model.value = <<>> THEN {}
    ELSE IF model.list
    THEN {Msg("warn", "Unknown model", model.value[i]) :
             i \in {j \in DOMAIN model.value : model.value[j] \notin Range(VALID_MODELS)}}
    ELSE IF verbose THEN {Msg("info", "Model filter", "model")} ELSE {}

(* what ApkBuilder.validate_config(config) prints *)
config_printed(config, verbose) ==
    IF "general" \notin DOMAIN config
    THEN {Msg("error", "Missing required field", REQUIRED_FIELDS[1])}
    ELSE Let(config["general"], LAMBDA g :
         Let({i \in DOMAIN REQUIRED_FIELDS :
                 strip(get(g, REQUIRED_FIELDS[i], <<>>)) = <<>>}, LAMBDA empty :
            IF empty # {}
            THEN {Msg("error", "Empty required field", REQUIRED_FIELDS[Min(empty)])}
            ELSE IF ~VALID_PACKAGE_PATTERN(g["package"])
            THEN {Msg("error", "Invalid package name", "package")}
            ELSE IF g["architecture"] \notin Range(VALID_ARCHITECTURES)
            THEN {Msg("error", "Invalid architecture", "architecture")}
            ELSE {Msg("warn", "Version may not follow semantic versioning", "version") :
                     x \in {y \in {g["version"]} : ~VALID_VERSION_PATTERN(y)}}
                 \cup {Msg("warn", "Firmware format may be invalid", "firmware") :
                          x \in {y \in {g["firmware"]} : ~VALID_FIRMWARE_PATTERN(y)}}
                 \cup model_printed(get(g, "model", NoModel), verbose)))

(* `if not self.validate(): sys.exit(1)`, and the same of validate_config *)
exit_never(valid) == FALSE

exit_unless(valid) == ~valid

(***************************************************************************)
(* build.py: the artifacts of the output directory and their pruning.  A   *)
(* file of the directory is [name, mtime].                                 *)
(***************************************************************************)
MAX_DEV_BUILDS == 5

ApkSuffix == <<".", "a", "p", "k">>
ShaSuffix == <<".", "s", "h", "a", "2", "5", "6">>
DevMarker == <<".", "d", "e", "v">>

StartsWith(s, p) == Len(p) <= Len(s) /\ SubSeq(s, 1, Len(p)) = p
EndsWith(s, p) == Len(p) <= Len(s) /\ SubSeq(s, Len(s) - Len(p) + 1, Len(s)) = p
Contains(s, sub) ==                                                      \* sub in s
    \E i \in 1..(Len(s) - Len(sub) + 1) : SubSeq(s, i, i + Len(sub) - 1) = sub

(* f"{package}_{version}_{architecture}.apk" *)
apk_filename(package, version, architecture) ==
    package \o <<"_">> \o version \o <<"_">> \o architecture \o ApkSuffix

(* a match of f"{package}*_{arch}.apk", without the underscore that ends   *)
(* the package                                                             *)
glob_star_prefix(name, package, arch) ==
    Let(<<"_">> \o arch \o ApkSuffix, LAMBDA suffix :
        IF /\ Len(name) >= Len(package) + Len(suffix)
           /\ StartsWith(name, package)
           /\ EndsWith(name, suffix)
        THEN <<SubSeq(name, Len(package) + 1, Len(name) - Len(suffix))>>
        ELSE <<>>)

(* what glob's * stands for when name matches f"{package}_*_{arch}.apk",   *)
(* as <<the text>>, and <<>> when name does not match                      *)
glob_star(name, package, arch) ==
    Let(package \o <<"_">>, LAMBDA prefix :
        Let(<<"_">> \o arch \o ApkSuffix, LAMBDA suffix :
            IF /\ Len(name) >= Len(prefix) + Len(suffix)
               /\ StartsWith(name, prefix)
               /\ EndsWith(name, suffix)
            THEN <<SubSeq(name, Len(prefix) + 1, Len(name) - Len(suffix))>>
            ELSE <<>>))

(* Path.stem: the name without its last suffix *)
stem(name) ==
    Let({i \in DOMAIN name : i > 1 /\ name[i] = "."}, LAMBDA dots :
        IF dots = {} THEN name ELSE SubSeq(name, 1, Max(dots) - 1))

(* the files _cleanup_old_releases unlinks: the artifacts of the package   *)
(* and architecture whose version holds no ".dev" and is not the current   *)
(* one                                                                     *)
old_releases(files, package, arch, current_version) ==
    {f \in files :
        /\ glob_star(f.name, package, arch) # <<>>
        /\ Let(Split(stem(f.name), "_") \o <<>>, LAMBDA parts :
               /\ Len(parts) >= 2
               /\ ~Contains(parts[2], DevMarker)
               /\ parts[2] # current_version)}

(* ApkBuilder._cleanup_old_releases: each old release goes, and with it    *)
(* its checksum file                                                       *)
cleanup_old_releases(files, package, arch, current_version) ==
    Let(old_releases(files, package, arch, current_version), LAMBDA old :
        {f \in files : f \notin old /\ \A o \in old : f.name # o.name \o ShaSuffix})

(* the files f"{package}_*.dev*_{arch}.apk" matches *)
dev_builds(files, package, arch) ==
    {f \in files :
        Let(glob_star(f.name, package, arch), LAMBDA star :
            star # <<>> /\ Contains(star[1], DevMarker))}

cleanup_old_dev_builds_keeping_all(files, package, arch) == {files}

(* ApkBuilder._cleanup_old_dev_builds: of the dev builds, newest first,    *)
(* those past the first MAX_DEV_BUILDS go.  sorted() leaves builds of one  *)
(* modification time in the order glob() gave them, which is the           *)
(* directory's: each such order is an outcome, and the result is the set   *)
(* of the directories that can be left                                     *)
cleanup_old_dev_builds(files, package, arch) ==
    Let(dev_builds(files, package, arch), LAMBDA dev :
        {files \ old :
            old \in {o \in SUBSET dev :
                        /\ Cardinality(o) = Max({0, Cardinality(dev) - MAX_DEV_BUILDS})
                        /\ \A x \in o, y \in dev \ o : x.mtime <= y.mtime}})

(* the file named name is written at the time mtime, in the place of an    *)
(* older one                                                               *)
write_file_at(files, name, mtime) ==
    {f \in files : f.name # name} \cup {[name |-> name, mtime |-> mtime]}

(* the file named name is written now, after every file of the directory *)
write_file(files, name) ==
    write_file_at(files, name, 1 + Max({0} \cup {f.mtime : f \in files}))

(* hashlib.sha256 over the bytes of a file.  Every write of a file gives it *)
(* bytes it did not have before (the archives carry the time they were     *)
(* made), so a file as it was written, [name, mtime], stands for its bytes *)
sha256(file) == <<file.name, file.mtime>>

(* f"{checksum}  {apk_path.name}", the text of a checksum file *)
checksum_text(apk_file) == [checksum |-> sha256(apk_file), name |-> apk_file.name]

(* checksum_file.write_text(...): the text of the file named name is text *)
write_checksum(sums, name, text) ==
    {s \in sums : s.file # name} \cup {[file |-> name, text |-> text]}

(* the checksum files of a directory found in order: each holds the digest *)
(* of the artifact beside it, or names an artifact that is gone            *)
InitialChecksums(files) ==
    {[file |-> s.name,
      text |-> checksum_text(
                  IF \E a \in files : a.name \o ShaSuffix = s.name
                  THEN CHOOSE a \in files : a.name \o ShaSuffix = s.name
                  ELSE [name |-> SubSeq(s.name, 1, Len(s.name) - Len(ShaSuffix)),
                        mtime |-> 0])] :
        s \in {f \in files : EndsWith(f.name, ShaSuffix)}}

(* the finally of build(): `if config_backup: write_text(config_backup)` *)
restore(file, backup, host) ==
    IF backup # None THEN write_text(backup[1], host) ELSE file

(* shutil.rmtree(temp_dir, ignore_errors=True) *)
rmtree_skipped(dir) == dir

rmtree(dir) == [state |-> "removed", files |-> {}]

(***************************************************************************)
(* build.py: the counter of the dev builds, build/.dev-build-counter.      *)
(***************************************************************************)
(* content.split(':', 1): what is before the first colon, and the rest *)
split_once(s, sep) ==
    Let(Min({i \in DOMAIN s : s[i] = sep}), LAMBDA i :
        <<SubSeq(s, 1, i - 1), SubSeq(s, i + 1, Len(s))>>)

(* int(s): the number of a string of digits, with whitespace around it and *)
(* a sign before it; None for the ValueError of any other string           *)
to_int(s) ==
    Let(strip(s), LAMBDA x :
        IF AllDigits(x) THEN Some(StrToInt(x))
        ELSE IF x # <<>> /\ x[1] \in {"+", "-"} /\ AllDigits(Tail(x))
        THEN Some((IF x[1] = "-" THEN -1 ELSE 1) * StrToInt(Tail(x)))
        ELSE None)

(* str(n) *)
str(n) == IF n < 0 THEN <<"-">> \o IntToStr(-n) ELSE IntToStr(n)

(* get_dev_build_number(package_version), file the text of the counter     *)
(* file or None: the number returned and the record written                *)
get_dev_build_number(file, package_version) ==
    Let(IF file = None THEN 1
        ELSE Let(strip(file[1]), LAMBDA content :
                 IF Contains(content, <<":">>)
                 THEN Let(split_once(content, ":"), LAMBDA stored :
                          IF stored[1] = package_version
                          THEN IF to_int(stored[2]) # None
                               THEN to_int(stored[2])[1] + 1
                               ELSE 1
                          ELSE 1)
                 ELSE 1),
        LAMBDA counter :
            [counter |-> counter,
             record |-> package_version \o <<":">> \o str(counter)])

(***************************************************************************)
(* build.py: create_tar_gz.  A node of a tree is [parts, kind, mode, uid]:  *)
(* its path below the root of the tree as the sequence of its names, what  *)
(* it is ("file", "dir", or "other" for what is neither), and the          *)
(* permission bits and the owner it has on the host.                       *)
(***************************************************************************)
CONTROL_DIR == <<"C", "O", "N", "T", "R", "O", "L">>
BIN_DIR == <<"b", "i", "n">>

(* exclude_dirs=['CONTROL', 'bin'] of the call for data.tar.gz *)
EXCLUDE_DIRS == {CONTROL_DIR, BIN_DIR}

(* os.sep of the host *)
sep(host) == IF host = "win" THEN "\\" ELSE "/"

(* s.replace('\\', '/') *)
replace_backslash(s) == [i \in DOMAIN s |-> IF s[i] = "\\" THEN "/" ELSE s[i]]

(* PurePath.suffix: from the last dot on, unless the dot is the first or    *)
(* the last character of the name                                          *)
suffix(name) ==
    Let({i \in DOMAIN name : name[i] = "."}, LAMBDA dots :
        IF dots # {} /\ 1 < Max(dots) /\ Max(dots) < Len(name)
        THEN SubSeq(name, Max(dots), Len(name)) ELSE <<>>)

tar_mode_of_host(item) == item.mode

(* info.mode: 0o755 for a directory and for a .sh or .py file, else 0o644 *)
tar_mode(item) ==
    IF item.kind = "dir" THEN "0755"
    ELSE IF suffix(item.parts[Len(item.parts)]) \in {<<".", "s", "h">>, <<".", "p", "y">>}
    THEN "0755" ELSE "0644"

(* the TarInfo of an item: the name, and the normalised mode and owner *)
tar_info(item, host) ==
    [name |-> <<".", "/">> \o replace_backslash(Join(item.parts, sep(host))),
     type |-> item.kind, mode |-> tar_mode(item),
     uid |-> 0, gid |-> 0, uname |-> "root", gname |-> "root"]

(* ApkBuilder.create_tar_gz: an entry for each file and directory that     *)
(* rglob('*') finds and that has no part in exclude_dirs                   *)
create_tar_gz(source_path, exclude_dirs, host) ==
    {tar_info(item, host) :
        item \in {n \in source_path :
                    /\ ~\E i \in DOMAIN n.parts : n.parts[i] \in exclude_dirs
                    /\ n.kind \in {"file", "dir"}}}

(* self.control_dir = apk_dir / 'CONTROL', as a tree of its own *)
control_dir(tree) ==
    {[n EXCEPT !.parts = Tail(@)] :
        n \in {x \in tree : Len(x.parts) > 1 /\ x.parts[1] = CONTROL_DIR}}

(* the names of the path of a member, "." and the empty name left out *)
member_parts(name) ==
    SelectSeq(Split(name, "/"), LAMBDA part : part # <<>> /\ part # <<".">>)

(* the permission bits a new directory gets under the umask of the host *)
Umasks == {"022", "077"}

mkdir_mode(umask) == IF umask = "022" THEN "0755" ELSE "0700"

(* tarfile.data_filter: a file keeps the bits of its entry below 0755 and  *)
(* gains 0600; the bits of a directory entry are ignored, so the directory *)
(* has the bits the umask gives it                                         *)
data_filter_mode(entry, umask) ==
    IF entry.type = "dir" THEN mkdir_mode(umask)
    ELSE IF entry.mode \in {"0755", "0777"} THEN "0755"
    ELSE IF entry.mode = "0644" THEN "0644" ELSE "0600"

(* tar.extractall(path, filter='data'): every member at its path below     *)
(* the root, and the directories above it that no member made              *)
extractall(tar, umask) ==
    Let({[parts |-> member_parts(e.name), kind |-> e.type,
          mode |-> data_filter_mode(e, umask)] : e \in tar}, LAMBDA members :
        members \cup
            {[parts |-> d, kind |-> "dir", mode |-> mkdir_mode(umask)] :
                d \in {q \in UNION {{SubSeq(m.parts, 1, k) : k \in 1..(Len(m.parts) - 1)} :
                                       m \in members} :
                          ~\E m \in members : m.parts = q}})

(* extract_apk(): data.tar.gz unpacked in output_dir, control.tar.gz in a  *)
(* new output_dir / 'CONTROL'                                              *)
unpack(zip, unpacked, umask) ==
    (IF "data" \in unpacked THEN extractall(zip.data, umask) ELSE {})
        \cup (IF "CONTROL" \in unpacked
              THEN {[parts |-> <<CONTROL_DIR>>, kind |-> "dir", mode |-> mkdir_mode(umask)]}
                       \cup {[n EXCEPT !.parts = <<CONTROL_DIR>> \o @] :
                                n \in extractall(zip.control, umask)}
              ELSE {})

(* the leaves lv of a tree with the directories above them *)
Tree(lv, mode, uid) ==
    {[parts |-> l.parts, kind |-> l.kind, mode |-> mode, uid |-> uid] : l \in lv}
        \cup {[parts |-> d, kind |-> "dir", mode |-> mode, uid |-> uid] :
                 d \in UNION {{SubSeq(l.parts, 1, k) : k \in 1..(Len(l.parts) - 1)} :
                                l \in lv}}

Leaf(parts, kind) == [parts |-> parts, kind |-> kind]

RUN_SH == <<"r", "u", "n", ".", "s", "h">>
C_JSON == <<"c", ".", "j", "s", "o", "n">>

PlainTree == Tree({Leaf(<<RUN_SH>>, "file"), Leaf(<<CONTROL_DIR, C_JSON>>, "file")}, "0644", 1000)

(***************************************************************************)
(* build.py: the source trees, output directories and envelopes the        *)
(* commands are run on.                                                    *)
(***************************************************************************)
NotEnded == -1

IO_APP == <<"i", "o", ".", "a", "p", "p">>
DevVersion == V465 \o DevMarker \o <<"1">>

General ==
    [package |-> IO_APP, name |-> <<"A", "p", "p">>, version |-> V465,
     developer |-> <<"d">>, maintainer |-> <<"m">>, email |-> <<"e">>,
     website |-> <<"w">>, architecture |-> X86_64, firmware |-> <<"3", ".", "6">>]

without(d, key) == [k \in DOMAIN d \ {key} |-> d[k]]

ValidConfigs ==
    {[general |-> General],
     [general |-> set_key(General, "version", DevVersion)],
     [general |-> set_key(General, "architecture", ANY)]}

InvalidConfigs ==
    {[general |-> without(General, REQUIRED_FIELDS[i])] : i \in DOMAIN REQUIRED_FIELDS}
        \cup {[general |-> set_key(General, "name", <<>>)],
              [general |-> set_key(General, "email", <<" ">>)],
              [general |-> set_key(General, "package", <<"i", "o", " ", "a">>)],
              [general |-> set_key(General, "architecture", <<"m", "i", "p", "s">>)],
              without([general |-> General], "general")}

ManifestFile(config, layout, newline) ==
    [config |-> config, layout |-> layout, newline |-> newline]

(* a 90x90 icon, and a start-stop.sh with a shebang and Unix line endings *)
GoodIcon == [header |-> "png", width |-> ICON_REQUIRED_SIZE, height |-> ICON_REQUIRED_SIZE]
GoodScript == [name |-> "start-stop.sh", shebang |-> TRUE, crlf |-> FALSE]

(* apk/CONTROL: [is_dir, files, icon, scripts], files the names of its      *)
(* regular files, icon the header of icon.png, scripts its *.sh files       *)
FullControl ==
    [is_dir |-> TRUE, files |-> {"config.json", "icon.png", "start-stop.sh"},
     icon |-> GoodIcon, scripts |-> {GoodScript}]

(* the source trees: [control, file, host] *)
SourceTrees ==
    {[control |-> FullControl, file |-> ManifestFile(c, l, n), host |-> h] :
        c \in ValidConfigs, l \in {"authored", "dumped"}, n \in {"lf", "crlf"},
        h \in {"posix", "win"}}
    \cup {[control |-> FullControl, file |-> ManifestFile(c, "authored", "lf"),
           host |-> "posix"] : c \in InvalidConfigs}
    \cup {[control |-> k, file |-> ManifestFile([general |-> General], "authored", "lf"),
           host |-> "posix"] :
            k \in {[FullControl EXCEPT !.is_dir = FALSE, !.files = {}, !.scripts = {}],
                   [FullControl EXCEPT !.files = {"config.json"}, !.scripts = {}],
                   [FullControl EXCEPT !.files = {"icon.png", "start-stop.sh"}]}}

OldFiles ==
    {[name |-> apk_filename(IO_APP, V466, X86_64), mtime |-> 1],
     [name |-> apk_filename(IO_APP, V466, X86_64) \o ShaSuffix, mtime |-> 2],
     [name |-> apk_filename(IO_APP, DevVersion, X86_64), mtime |-> 3],
     [name |-> apk_filename(IO_APP, V466, ARM64), mtime |-> 4]}

(* what is at the path of the output directory: nothing, a directory, or   *)
(* a regular file                                                          *)
Destinations ==
    {[kind |-> "absent", files |-> {}], [kind |-> "dir", files |-> {}],
     [kind |-> "dir", files |-> OldFiles], [kind |-> "file", files |-> {}]}

NoTemp == [state |-> "none", files |-> {}]
NoUnzip == [dest_path |-> <<>>, members |-> <<>>, raised |-> 0, written |-> <<>>]
NoArgs ==
    [cmd |-> "none", version_override |-> None, is_dev_build |-> FALSE, force |-> FALSE,
     verbose |-> FALSE, valid |-> None, config_valid |-> None,
     apk |-> [is_file |-> FALSE, members |-> <<>>], config |-> <<>>,
     before |-> <<>>]

NoArm64 == [pc |-> "idle", config_backup |-> None, before |-> None, status |-> NotEnded]

TempRoot == <<"/", "tmp", "/", "APKG">>              \* what tempfile.mkdtemp returns
TempPath(name) == resolve(TempRoot) \o <<name>>     \* temp_dir / name

APK_CONTENTS == <<"apkg-version", "control.tar.gz", "data.tar.gz">>

Escape == <<"..", "/", "escape.txt">>
Envelope == [i \in DOMAIN APK_CONTENTS |-> <<APK_CONTENTS[i]>>]
Lacking(i) == SelectSeq(Envelope, LAMBDA m : m # <<APK_CONTENTS[i]>>)

ApkFiles ==
    {[is_file |-> FALSE, members |-> <<>>]}
        \cup {[is_file |-> TRUE, members |-> m] :
                m \in {Envelope, <<>>, <<Escape>> \o Envelope, Envelope \o <<Escape>>}
                          \cup {Lacking(i) : i \in DOMAIN APK_CONTENTS}}

(* the build.py variables before any invocation, on a plain source tree *)
ApkAtRest ==
    /\ pc = "idle"
    /\ args = NoArgs
    /\ platform = "posix"
    /\ controlFiles = FullControl
    /\ configFile = ManifestFile([general |-> General], "authored", "lf")
    /\ config_backup = None
    /\ destination = [kind |-> "absent", files |-> {}]
    /\ temp_dir = NoTemp
    /\ output_dir = [exists |-> FALSE, content |-> {}]
    /\ exitStatus = NotEnded
    /\ unzip = NoUnzip
    /\ printed = {}
    /\ apk_dir = PlainTree
    /\ data_tar = None
    /\ control_tar = None
    /\ apk_zip = None
    /\ extracted = None
    /\ stages = <<>>
    /\ counter_file = None
    /\ issued = <<>>
    /\ checksums = InitialChecksums(destination.files)
    /\ arm64 = NoArm64

(***************************************************************************)
(* build.py: ApkBuilder.build(), one action per stage.  An exception or a  *)
(* sys.exit() ends the invocation with status 1; inside the try it first   *)
(* runs the finally.  The cleanup of a finally itself does not fail.       *)
(***************************************************************************)
TryStages ==
    <<"update_changelog", "copy_license", "convert_line_endings", "apkg-version",
      "control.tar.gz", "data.tar.gz", "zip", "checksum">>

StageAfter(stage) ==
    TryStages[1 + CHOOSE i \in DOMAIN TryStages : TryStages[i] = stage]

(* what a stage before the ZIP leaves in CONTROL and in the workspace *)
ControlAfter(stage, control) ==
    IF stage = "update_changelog"
    THEN [control EXCEPT !.files = @ \cup {"changelog.txt"}]
    ELSE IF stage = "copy_license"
    THEN [control EXCEPT !.files = @ \cup {"license.txt"}]
    ELSE control

(* create_tar_gz(data_tar, self.apk_dir, exclude_dirs=['CONTROL', 'bin']) *)
DataTarAfter(stage, tar, tree, host) ==
    IF stage = "data.tar.gz" THEN Some(create_tar_gz(tree, EXCLUDE_DIRS, host)) ELSE tar

(* self.create_tar_gz(control_tar, self.control_dir) *)
ControlTarAfter(stage, tar, tree, host) ==
    IF stage = "control.tar.gz" THEN Some(create_tar_gz(control_dir(tree), {}, host)) ELSE tar

TempAfter(stage, temp) ==
    IF stage \in Range(APK_CONTENTS)
    THEN [temp EXCEPT !.files = @ \cup {TempPath(stage)}]
    ELSE temp

Ends(status) == pc' = "done" /\ exitStatus' = status

(* a finally that removes the workspace before it restores the manifest *)
BuildFinally_workspace_first(done) ==
    /\ configFile' = restore(configFile, config_backup, platform)
    /\ temp_dir' = rmtree(temp_dir)
    /\ data_tar' = None
    /\ control_tar' = None
    /\ stages' = stages \o done \o <<"rmtree temp_dir">>
                    \o (IF config_backup # None THEN <<"restore manifest">> ELSE <<>>)

(* the finally of build(), after the steps done of the try: the manifest   *)
(* is restored when there is a stash, then the workspace is removed        *)
BuildFinally(done) ==
    /\ configFile' = restore(configFile, config_backup, platform)
    /\ temp_dir' = rmtree(temp_dir)
    /\ data_tar' = None
    /\ control_tar' = None
    /\ stages' = stages \o done
                    \o (IF config_backup # None THEN <<"restore manifest">> ELSE <<>>)
                    \o <<"rmtree temp_dir">>

(* build() is entered, and runs validate() *)
BuildEnter(version_override, is_dev_build, verbose) ==
    /\ pc = "idle"
    /\ printed' = validate_printed(controlFiles, verbose)
    /\ stages' = <<"validate">>
    /\ args' = [NoArgs EXCEPT !.cmd = "build", !.version_override = version_override,
                              !.is_dev_build = is_dev_build, !.verbose = verbose,
                              !.valid = Some(validate(controlFiles)),
                              !.before = [configFile |-> configFile,
                                          controlFiles |-> controlFiles,
                                          destination |-> destination]]
    /\ IF exit_unless(validate(controlFiles))
       THEN Ends(1)
       ELSE pc' = "get_config" /\ UNCHANGED exitStatus
    /\ UNCHANGED <<platform, apk_dir, data_tar, control_tar, apk_zip, extracted,
                   checksums, arm64, controlFiles, configFile, config_backup,
                   destination, temp_dir, output_dir, unzip>>

(* builder.build(destination, version_override, is_dev_build) *)
Build(version_override, is_dev_build, verbose) ==
    /\ BuildEnter(version_override, is_dev_build, verbose)
    /\ UNCHANGED <<counter_file, issued>>

(* main() with --dev: the manifest version, the next number of the         *)
(* counter, and the build under the dev version of the two                 *)
MainDev ==
    /\ pc = "idle"
    /\ \E config \in {get_config(configFile)} :
         IF "version" \notin DOMAIN get(config, "general", <<>>)
         THEN /\ Ends(1)                                    \* KeyError, uncaught
              /\ UNCHANGED <<args, stages, printed, counter_file, issued, platform,
                             apk_dir, data_tar, control_tar, apk_zip, extracted,
                             checksums, arm64, controlFiles, configFile, config_backup,
                             destination, temp_dir, output_dir, unzip>>
         ELSE
      \E package_version \in {config["general"]["version"]} :
      \E dev \in {get_dev_build_number(counter_file, package_version)} :
        \E version_override \in {package_version \o DevMarker \o str(dev.counter)} :
            /\ counter_file' = Some(dev.record)
            /\ issued' = Append(issued, [stored |-> counter_file,
                                         package_version |-> package_version,
                                         dev_number |-> dev.counter,
                                         version_override |-> version_override])
            /\ BuildEnter(Some(version_override), TRUE, FALSE)

(* get_config() and validate_config() *)
BuildValidateConfig ==
    /\ pc = "get_config"
    /\ stages' = stages \o <<"get_config", "validate_config">>
    /\ \E config \in {get_config(configFile)} :
           /\ args' = [args EXCEPT !.config = config,
                                   !.config_valid = Some(validate_config(config))]
           /\ printed' = printed \cup config_printed(config, args.verbose)
           /\ IF exit_unless(validate_config(config))
              THEN Ends(1)
              ELSE pc' = "override" /\ UNCHANGED exitStatus
    /\ UNCHANGED <<platform, apk_dir, data_tar, control_tar, apk_zip, extracted,
                   counter_file, issued, checksums, arm64, controlFiles, configFile,
                   config_backup, destination, temp_dir, output_dir, unzip>>

(* with a version override: the manifest is stashed and rewritten *)
BuildOverride ==
    /\ pc = "override"
    /\ pc' = "mkdir"
    /\ IF args.version_override # None
       THEN \E config \in {set_key(args.config, "general",
                               set_key(get(args.config, "general", <<>>), "version",
                                       args.version_override[1]))} :
                /\ config_backup' = Some(read_text(configFile))
                /\ args' = [args EXCEPT !.config = config]
                /\ configFile' = write_text(json_dump(config), platform)
                /\ stages' = stages \o <<"stash manifest", "write override">>
       ELSE UNCHANGED <<args, config_backup, configFile, stages>>
    /\ UNCHANGED <<platform, apk_dir, data_tar, control_tar, apk_zip, extracted,
                   counter_file, issued, checksums, arm64, printed, controlFiles,
                   destination, temp_dir, output_dir, exitStatus, unzip>>

(* destination.mkdir(parents=True, exist_ok=True): raises when a file is   *)
(* at the path                                                             *)
BuildMkdir ==
    /\ pc = "mkdir"
    /\ IF destination.kind = "file"
       THEN Ends(1) /\ UNCHANGED <<destination, stages>>
       ELSE /\ pc' = "mkdtemp"
            /\ destination' = [destination EXCEPT !.kind = "dir"]
            /\ stages' = stages \o <<"mkdir">>
            /\ UNCHANGED exitStatus
    /\ UNCHANGED <<args, platform, apk_dir, data_tar, control_tar, apk_zip, extracted,
                   counter_file, issued, checksums, arm64, printed, controlFiles,
                   configFile, config_backup, temp_dir, output_dir, unzip>>

(* tempfile.mkdtemp(): the workspace, unless it cannot be created *)
BuildMkdtemp(fault) ==
    /\ pc = "mkdtemp"
    /\ IF fault
       THEN Ends(1) /\ UNCHANGED <<temp_dir, stages>>
       ELSE /\ pc' = TryStages[1]
            /\ temp_dir' = [state |-> "exists", files |-> {}]
            /\ stages' = stages \o <<"mkdtemp">>
            /\ UNCHANGED exitStatus
    /\ UNCHANGED <<args, platform, apk_dir, data_tar, control_tar, apk_zip, extracted,
                   counter_file, issued, checksums, arm64, printed, controlFiles,
                   configFile, config_backup, destination, output_dir, unzip>>

(* a stage of the try before the ZIP: changelog, license, line endings,    *)
(* version marker, control archive, payload archive                        *)
BuildStage(fault) ==
    /\ pc \in Range(TryStages) \ {"zip", "checksum"}
    /\ IF fault
       THEN Ends(1) /\ BuildFinally(<<>>) /\ UNCHANGED controlFiles
       ELSE /\ pc' = StageAfter(pc)
            /\ controlFiles' = ControlAfter(pc, controlFiles)
            /\ temp_dir' = TempAfter(pc, temp_dir)
            /\ control_tar' = ControlTarAfter(pc, control_tar, apk_dir, platform)
            /\ data_tar' = DataTarAfter(pc, data_tar, apk_dir, platform)
            /\ stages' = stages \o <<pc>>
            /\ UNCHANGED <<exitStatus, configFile>>
    /\ UNCHANGED <<args, platform, apk_dir, apk_zip, extracted, counter_file, issued,
                   checksums, arm64, printed, config_backup, destination, output_dir,
                   unzip>>

(* the envelope is written at apk_path at the time mtime, an older file    *)
(* there unlinked; a failure leaves what was written of it, which is no    *)
(* envelope                                                                *)
BuildZipAt(fault, mtime) ==
    /\ pc = "zip"
    /\ \E g \in {get(args.config, "general", <<>>)} :
           destination' =
               [destination EXCEPT !.files =
                   write_file_at(@, apk_filename(get(g, "package", <<>>),
                                                 get(g, "version", <<>>),
                                                 get(g, "architecture", <<>>)), mtime)]
    /\ IF fault
       THEN Ends(1) /\ BuildFinally(<<>>) /\ apk_zip' = None
       ELSE /\ pc' = "checksum"
            /\ apk_zip' = Some([control |-> control_tar[1], data |-> data_tar[1]])
            /\ stages' = stages \o <<"zip">>
            /\ UNCHANGED <<exitStatus, configFile, temp_dir, data_tar, control_tar>>
    /\ UNCHANGED <<args, platform, apk_dir, extracted, counter_file, issued, checksums,
                   arm64, printed, controlFiles, config_backup, output_dir, unzip>>

(* the envelope written on a host whose clock is ahead of every file of    *)
(* the output directory                                                    *)
BuildZip(fault) ==
    BuildZipAt(fault, 1 + Max({0} \cup {f.mtime : f \in destination.files}))

(* production: checksum, sidecar and _cleanup_old_releases; dev:           *)
(* _cleanup_old_dev_builds; then apk_path.stat() for the size, which       *)
(* raises when the pruning took the artifact; then the return through the  *)
(* finally                                                                 *)
BuildFinish(fault) ==
    /\ pc = "checksum"
    /\ \E g \in {get(args.config, "general", <<>>)} :
         \E package \in {get(g, "package", <<>>)},
            version \in {get(g, "version", <<>>)},
            arch \in {get(g, "architecture", <<>>)} :
             IF fault
             THEN Ends(1) /\ BuildFinally(<<>>) /\ UNCHANGED <<destination, checksums>>
             ELSE \E pruned \in
                      (IF args.is_dev_build
                       THEN cleanup_old_dev_builds(destination.files, package, arch)
                       ELSE {cleanup_old_releases(
                                 write_file(destination.files,
                                            apk_filename(package, version, arch)
                                                \o ShaSuffix),
                                 package, arch, version)}) :
                      /\ destination' = [destination EXCEPT !.files = pruned]
                      /\ checksums' =
                             IF args.is_dev_build THEN checksums
                             ELSE {s \in write_checksum(
                                             checksums,
                                             apk_filename(package, version, arch)
                                                 \o ShaSuffix,
                                             checksum_text(
                                                 CHOOSE f \in destination.files :
                                                     f.name = apk_filename(package, version,
                                                                           arch))) :
                                      \E f \in pruned : f.name = s.file}
                      /\ BuildFinally(IF args.is_dev_build
                                      THEN <<"cleanup_old_dev_builds">>
                                      ELSE <<"checksum", "checksum file",
                                             "cleanup_old_releases">>)
                      /\ Ends(IF \E f \in pruned :
                                    f.name = apk_filename(package, version, arch)
                              THEN 0 ELSE 1)
    /\ UNCHANGED <<args, platform, apk_dir, apk_zip, extracted, counter_file, issued,
                   arm64, printed, controlFiles, config_backup, output_dir, unzip>>

(***************************************************************************)
(* build.py: list_apk_contents() and extract_apk().                        *)
(***************************************************************************)
(* shutil.rmtree(temp_dir) in the finally of the two *)
ApkFinally == temp_dir' = rmtree(temp_dir)

is_file_unchecked(name) == TRUE

(* (temp_dir / name).is_file() *)
is_file(name) == TempPath(name) \in temp_dir.files

(* safe_extract_zip(apk_path, temp_dir), and the ValueError it may raise *)
Unzip(next) ==
    \E r \in {safe_extract_zip(args.apk.members, TempRoot)} :
        /\ unzip' = [dest_path |-> TempRoot, members |-> args.apk.members,
                     raised |-> r.raised, written |-> r.written]
        /\ IF r.raised # 0
           THEN Ends(1) /\ ApkFinally
           ELSE /\ pc' = next
                /\ temp_dir' = [temp_dir EXCEPT !.files = Range(r.written)]
                /\ UNCHANGED exitStatus

(* the entry of both: the file must exist, then the workspace is made *)
Enter(cmd, apk, force, fault) ==
    /\ pc = "idle"
    /\ args' = [NoArgs EXCEPT !.cmd = cmd, !.apk = apk, !.force = force,
                              !.before = [output_dir |-> output_dir]]
    /\ IF ~apk.is_file \/ fault
       THEN Ends(1) /\ UNCHANGED temp_dir
       ELSE /\ pc' = "unzip"
            /\ temp_dir' = [state |-> "exists", files |-> {}]
            /\ UNCHANGED exitStatus
    /\ UNCHANGED <<platform, apk_dir, data_tar, control_tar, apk_zip, extracted, stages,
                   counter_file, issued, checksums, arm64, printed, controlFiles,
                   configFile, config_backup, destination, output_dir, unzip>>

ListApk(apk, fault) == Enter("list", apk, FALSE, fault)

ListUnzip ==
    /\ pc = "unzip" /\ args.cmd = "list"
    /\ Unzip("print")
    /\ UNCHANGED <<args, platform, apk_dir, data_tar, control_tar, apk_zip, extracted,
                   stages, counter_file, issued, checksums, arm64, printed, controlFiles,
                   configFile, config_backup, destination, output_dir>>

(* the entries that are there are read and printed; an archive that cannot *)
(* be read raises; otherwise the function returns                          *)
ListPrint(fault) ==
    /\ pc = "print"
    /\ fault => is_file("control.tar.gz") \/ is_file("data.tar.gz")
    /\ Ends(IF fault THEN 1 ELSE 0)
    /\ ApkFinally
    /\ UNCHANGED <<args, platform, apk_dir, data_tar, control_tar, apk_zip, extracted,
                   stages, counter_file, issued, checksums, arm64, printed, controlFiles,
                   configFile, config_backup, destination, output_dir, unzip>>

ExtractApk(apk, force, fault) == Enter("extract", apk, force, fault)

ExtractUnzip ==
    /\ pc = "unzip" /\ args.cmd = "extract"
    /\ Unzip("verify")
    /\ UNCHANGED <<args, platform, apk_dir, data_tar, control_tar, apk_zip, extracted,
                   stages, counter_file, issued, checksums, arm64, printed, controlFiles,
                   configFile, config_backup, destination, output_dir>>

(* `Verify APK format`: the three entries, or sys.exit(1) *)
ExtractVerify ==
    /\ pc = "verify"
    /\ IF \E i \in DOMAIN APK_CONTENTS : ~is_file(APK_CONTENTS[i])
       THEN Ends(1) /\ ApkFinally
       ELSE pc' = "control" /\ UNCHANGED <<exitStatus, temp_dir>>
    /\ UNCHANGED <<args, platform, apk_dir, data_tar, control_tar, apk_zip, extracted,
                   stages, counter_file, issued, checksums, arm64, printed, controlFiles,
                   configFile, config_backup, destination, output_dir, unzip>>

(* the control archive is unpacked in the workspace and its manifest read *)
ExtractControl(fault) ==
    /\ pc = "control"
    /\ IF fault
       THEN Ends(1) /\ ApkFinally
       ELSE /\ pc' = "output"
            /\ temp_dir' = [temp_dir EXCEPT !.files = @ \cup {TempPath("CONTROL_temp")}]
            /\ UNCHANGED exitStatus
    /\ UNCHANGED <<args, platform, apk_dir, data_tar, control_tar, apk_zip, extracted,
                   stages, counter_file, issued, checksums, arm64, printed, controlFiles,
                   configFile, config_backup, destination, output_dir, unzip>>

(* `if output_dir.exists(): if force: rmtree else: sys.exit(1)` *)
conflict_never_fatal(exists, force) == FALSE

conflict_is_fatal(exists, force) == exists /\ ~force

(* the output directory: one that exists is removed with force, and ends   *)
(* the extraction without; then it is made, empty                          *)
ExtractOutput ==
    /\ pc = "output"
    /\ IF conflict_is_fatal(output_dir.exists, args.force)
       THEN Ends(1) /\ ApkFinally /\ UNCHANGED output_dir
       ELSE /\ pc' = "unpack"
            /\ output_dir' = [exists |-> TRUE, content |-> {}]
            /\ UNCHANGED <<exitStatus, temp_dir>>
    /\ UNCHANGED <<args, platform, apk_dir, data_tar, control_tar, apk_zip, extracted,
                   stages, counter_file, issued, checksums, arm64, printed, controlFiles,
                   configFile, config_backup, destination, unzip>>

(* data.tar.gz is unpacked in the output directory, then control.tar.gz   *)
(* in its CONTROL; a failure leaves what was unpacked before it.  The      *)
(* archives of an envelope that build() wrote are unpacked entry by entry, *)
(* under the umask of the host.                                            *)
ExtractUnpack(fault) ==
    /\ pc = "unpack"
    /\ \E unpacked \in (IF fault THEN {{}, {"data"}} ELSE {{"data", "CONTROL"}}),
          umask \in (IF apk_zip # None THEN Umasks ELSE {"022"}) :
           /\ output_dir' = [output_dir EXCEPT !.content = @ \cup unpacked]
           /\ extracted' = IF apk_zip # None
                           THEN Some(unpack(apk_zip[1], unpacked, umask))
                           ELSE extracted
    /\ Ends(IF fault THEN 1 ELSE 0)
    /\ ApkFinally
    /\ UNCHANGED <<args, platform, apk_dir, data_tar, control_tar, apk_zip, stages,
                   counter_file, issued, checksums, arm64, printed, controlFiles,
                   configFile, config_backup, destination, unzip>>

(***************************************************************************)
(* build.py: one invocation on any of the source trees.                    *)
(***************************************************************************)
InitApk ==
    /\ repoTags = {}
    /\ manifestVersion = V465
    /\ last = Idle
    /\ chain = [b \in Bases |-> NoChain]
    /\ pc = "idle"
    /\ args = NoArgs
    /\ \E tree \in SourceTrees :
           /\ platform = tree.host
           /\ controlFiles = tree.control
           /\ configFile = tree.file
    /\ config_backup = None
    /\ destination \in Destinations
    /\ temp_dir = NoTemp
    /\ output_dir \in {[exists |-> FALSE, content |-> {}],
                       [exists |-> TRUE, content |-> {"old"}]}
    /\ exitStatus = NotEnded
    /\ unzip = NoUnzip
    /\ printed = {}
    /\ apk_dir = PlainTree
    /\ data_tar = None
    /\ control_tar = None
    /\ apk_zip = None
    /\ extracted = None
    /\ stages = <<>>
    /\ counter_file = None
    /\ issued = <<>>
    /\ checksums = InitialChecksums(destination.files)
    /\ arm64 = NoArm64

NextApk ==
    \/ \E o \in {None, Some(DevVersion)}, dev \in BOOLEAN :
           Build(o, dev, FALSE) /\ UNCHANGED vmVars
    \/ BuildValidateConfig /\ UNCHANGED vmVars
    \/ BuildOverride /\ UNCHANGED vmVars
    \/ BuildMkdir /\ UNCHANGED vmVars
    \/ \E fault \in BOOLEAN : BuildMkdtemp(fault) /\ UNCHANGED vmVars
    \/ \E fault \in BOOLEAN : BuildStage(fault) /\ UNCHANGED vmVars
    \/ \E fault \in BOOLEAN : BuildZip(fault) /\ UNCHANGED vmVars
    \/ \E fault \in BOOLEAN : BuildFinish(fault) /\ UNCHANGED vmVars
    \/ \E apk \in ApkFiles, fault \in BOOLEAN : ListApk(apk, fault) /\ UNCHANGED vmVars
    \/ ListUnzip /\ UNCHANGED vmVars
    \/ \E fault \in BOOLEAN : ListPrint(fault) /\ UNCHANGED vmVars
    \/ \E apk \in ApkFiles, force \in BOOLEAN, fault \in BOOLEAN :
           ExtractApk(apk, force, fault) /\ UNCHANGED vmVars
    \/ ExtractUnzip /\ UNCHANGED vmVars
    \/ ExtractVerify /\ UNCHANGED vmVars
    \/ \E fault \in BOOLEAN : ExtractControl(fault) /\ UNCHANGED vmVars
    \/ ExtractOutput /\ UNCHANGED vmVars
    \/ \E fault \in BOOLEAN : ExtractUnpack(fault) /\ UNCHANGED vmVars

SpecApk == InitApk /\ [][NextApk]_vars

(***************************************************************************)
(* build.py: builds one after another into one output directory, as main() *)
(* starts them: a production build of the manifest's version, or a dev     *)
(* build under an overriding X.Y.Z.devN.  The directory starts with any of *)
(* the dev artifacts 1..k, oldest first or newest first, and any part of   *)
(* OtherFiles.                                                             *)
(***************************************************************************)
MaxDev == 7
MaxClock == 3

DevVersionNo(k) == V465 \o DevMarker \o IntToStr(k)

DevVersions == {DevVersionNo(k) : k \in 1..MaxDev}

(* the dev artifacts 1..k: the first the oldest, the first the newest, or   *)
(* all of one modification time                                            *)
DevOrders == {"oldest first", "newest first", "at once"}

DevFiles(k, order) ==
    {[name |-> apk_filename(IO_APP, DevVersionNo(i), X86_64),
      mtime |-> IF order = "oldest first" THEN i
                ELSE IF order = "newest first" THEN k + 1 - i ELSE 1] : i \in 1..k}

IO_APP2 == IO_APP \o <<"2">>

V465R1 == V465 \o <<".", "r", "1">>

(* the dev version main() forms from a manifest version 4.6.6_b, which     *)
(* validate_config admits with a warning                                   *)
V466_B_DEV == V466 \o <<"_", "b">> \o DevMarker \o <<"1">>

(* an older release with its checksum file, a revision, the artifacts of   *)
(* another architecture and of another package, a dev build of a version   *)
(* with an underscore, and the checksum files of the release of the other  *)
(* architecture and of the other package                                   *)
OtherFiles ==
    {[name |-> apk_filename(IO_APP, V466, X86_64), mtime |-> 1],
     [name |-> apk_filename(IO_APP, V466, X86_64) \o ShaSuffix, mtime |-> 1],
     [name |-> apk_filename(IO_APP, V465R1, X86_64), mtime |-> 2],
     [name |-> apk_filename(IO_APP, V465, X86_64), mtime |-> 3],
     [name |-> apk_filename(IO_APP, DevVersionNo(1), ARM64), mtime |-> 4],
     [name |-> apk_filename(IO_APP, V466, ARM64), mtime |-> 5],
     [name |-> apk_filename(IO_APP2, DevVersionNo(1), X86_64), mtime |-> 6],
     [name |-> apk_filename(IO_APP2, V466, X86_64), mtime |-> 7],
     [name |-> apk_filename(IO_APP, V466_B_DEV, X86_64), mtime |-> 8],
     [name |-> apk_filename(IO_APP, V466, ARM64) \o ShaSuffix, mtime |-> 5],
     [name |-> apk_filename(IO_APP2, V466, X86_64) \o ShaSuffix, mtime |-> 7]}

OtherParts ==
    {{}, OtherFiles} \cup {{f} : f \in OtherFiles}
        \cup {{f \in OtherFiles : ~Contains(f.name, DevMarker)}}

OutputDirs ==
    {[kind |-> "dir", files |-> DevFiles(k, order) \cup others] :
        k \in {0, MAX_DEV_BUILDS - 1, MAX_DEV_BUILDS, MAX_DEV_BUILDS + 1},
        order \in DevOrders, others \in OtherParts}

(* the latest modification time in the directory *)
Clock == Max({0} \cup {f.mtime : f \in destination.files})

(* main() returns and is started again *)
Return ==
    /\ pc = "done"
    /\ Clock < MaxClock
    /\ pc' = "idle"
    /\ args' = NoArgs
    /\ config_backup' = None
    /\ temp_dir' = NoTemp
    /\ exitStatus' = NotEnded
    /\ printed' = {}
    /\ UNCHANGED <<platform, apk_dir, data_tar, control_tar, apk_zip, extracted, stages,
                   counter_file, issued, checksums, arm64, controlFiles, configFile,
                   destination, output_dir, unzip>>

(* config.json is edited: general.version becomes version *)
SetManifestVersion(version) ==
    /\ pc = "idle"
    /\ get_config(configFile)["general"]["version"] # version
    /\ configFile' = ManifestFile([general |-> set_key(General, "version", version)],
                                  "authored", "lf")
    /\ UNCHANGED <<pc, args, platform, apk_dir, data_tar, control_tar, apk_zip, extracted,
                   stages, counter_file, issued, checksums, arm64, printed, controlFiles,
                   config_backup, destination, temp_dir, output_dir, exitStatus, unzip>>

InitBuilds ==
    /\ repoTags = {}
    /\ manifestVersion = V465
    /\ last = Idle
    /\ chain = [b \in Bases |-> NoChain]
    /\ pc = "idle"
    /\ args = NoArgs
    /\ platform = "posix"
    /\ controlFiles = FullControl
    /\ configFile = ManifestFile([general |-> General], "authored", "lf")
    /\ config_backup = None
    /\ destination \in OutputDirs
    /\ temp_dir = NoTemp
    /\ output_dir = [exists |-> FALSE, content |-> {}]
    /\ exitStatus = NotEnded
    /\ unzip = NoUnzip
    /\ printed = {}
    /\ apk_dir = PlainTree
    /\ data_tar = None
    /\ control_tar = None
    /\ apk_zip = None
    /\ extracted = None
    /\ stages = <<>>
    /\ counter_file = None
    /\ issued = <<>>
    /\ checksums = InitialChecksums(destination.files)
    /\ arm64 = NoArm64

NextBuilds ==
    \/ Build(None, FALSE, FALSE) /\ UNCHANGED vmVars
    \/ \E v \in DevVersions : Build(Some(v), TRUE, FALSE) /\ UNCHANGED vmVars
    \/ BuildValidateConfig /\ UNCHANGED vmVars
    \/ BuildOverride /\ UNCHANGED vmVars
    \/ BuildMkdir /\ UNCHANGED vmVars
    \/ BuildMkdtemp(FALSE) /\ UNCHANGED vmVars
    \/ BuildStage(FALSE) /\ UNCHANGED vmVars
    \/ \E fault \in BOOLEAN : BuildZip(fault) /\ UNCHANGED vmVars
    \/ \E fault \in BOOLEAN : BuildFinish(fault) /\ UNCHANGED vmVars
    \/ Return /\ UNCHANGED vmVars

SpecBuilds == InitBuilds /\ [][NextBuilds]_vars

(***************************************************************************)
(* build.py: one build, production or dev, whose artifact is written at    *)
(* any time of the host's clock: ahead of the files of the output          *)
(* directory, or behind them.  The manifest version is 4.6.5, or 4.6.6_b,  *)
(* which validate_config admits with a warning.                            *)
(***************************************************************************)
V466_B == V466 \o <<"_", "b">>

PruneDirs ==
    {[kind |-> "dir", files |-> DevFiles(k, order) \cup others] :
        k \in {0, MAX_DEV_BUILDS - 1, MAX_DEV_BUILDS, MAX_DEV_BUILDS + 1},
        order \in DevOrders,
        others \in {{}, {f \in OtherFiles : ~EndsWith(f.name, ShaSuffix)}}}

(* the times the artifact can be written at *)
WriteTimes == {0, 1, 1 + Clock}

InitPrune ==
    /\ repoTags = {}
    /\ manifestVersion = V465
    /\ last = Idle
    /\ chain = [b \in Bases |-> NoChain]
    /\ pc = "idle"
    /\ args = NoArgs
    /\ platform = "posix"
    /\ controlFiles = FullControl
    /\ \E version \in {V465, V466_B} :
           configFile = ManifestFile([general |-> set_key(General, "version", version)],
                                     "authored", "lf")
    /\ config_backup = None
    /\ destination \in PruneDirs
    /\ temp_dir = NoTemp
    /\ output_dir = [exists |-> FALSE, content |-> {}]
    /\ exitStatus = NotEnded
    /\ unzip = NoUnzip
    /\ printed = {}
    /\ apk_dir = PlainTree
    /\ data_tar = None
    /\ control_tar = None
    /\ apk_zip = None
    /\ extracted = None
    /\ stages = <<>>
    /\ counter_file \in {None, Some(V465 \o <<":">> \o str(MaxDev - 1))}
    /\ issued = <<>>
    /\ checksums = {}
    /\ arm64 = NoArm64

NextPrune ==
    \/ Build(None, FALSE, FALSE) /\ UNCHANGED vmVars
    \/ MainDev /\ UNCHANGED vmVars
    \/ BuildValidateConfig /\ UNCHANGED vmVars
    \/ BuildOverride /\ UNCHANGED vmVars
    \/ BuildMkdir /\ UNCHANGED vmVars
    \/ BuildMkdtemp(FALSE) /\ UNCHANGED vmVars
    \/ BuildStage(FALSE) /\ UNCHANGED vmVars
    \/ \E mtime \in WriteTimes : BuildZipAt(FALSE, mtime) /\ UNCHANGED vmVars
    \/ BuildFinish(FALSE) /\ UNCHANGED vmVars

SpecPrune == InitPrune /\ [][NextPrune]_vars

(***************************************************************************)
(* build.py: production builds one after the other into one directory,     *)
(* each of which can fail at any stage, the manifest version edited        *)
(* between them.  The directory is empty at first, or holds the release    *)
(* 4.6.6 and its checksum file.                                            *)
(***************************************************************************)
ReleasedFiles ==
    {[name |-> apk_filename(IO_APP, V466, X86_64), mtime |-> 1],
     [name |-> apk_filename(IO_APP, V466, X86_64) \o ShaSuffix, mtime |-> 1]}

InitSidecar ==
    /\ repoTags = {}
    /\ manifestVersion = V465
    /\ last = Idle
    /\ chain = [b \in Bases |-> NoChain]
    /\ pc = "idle"
    /\ args = NoArgs
    /\ platform = "posix"
    /\ controlFiles = FullControl
    /\ \E version \in {V465, V466} :
           configFile = ManifestFile([general |-> set_key(General, "version", version)],
                                     "authored", "lf")
    /\ config_backup = None
    /\ destination \in {[kind |-> "dir", files |-> files] : files \in {{}, ReleasedFiles}}
    /\ temp_dir = NoTemp
    /\ output_dir = [exists |-> FALSE, content |-> {}]
    /\ exitStatus = NotEnded
    /\ unzip = NoUnzip
    /\ printed = {}
    /\ apk_dir = PlainTree
    /\ data_tar = None
    /\ control_tar = None
    /\ apk_zip = None
    /\ extracted = None
    /\ stages = <<>>
    /\ counter_file = None
    /\ issued = <<>>
    /\ checksums = InitialChecksums(destination.files)
    /\ arm64 = NoArm64

NextSidecar ==
    \/ Build(None, FALSE, FALSE) /\ UNCHANGED vmVars
    \/ BuildValidateConfig /\ UNCHANGED vmVars
    \/ BuildOverride /\ UNCHANGED vmVars
    \/ BuildMkdir /\ UNCHANGED vmVars
    \/ \E fault \in BOOLEAN : BuildMkdtemp(fault) /\ UNCHANGED vmVars
    \/ \E fault \in BOOLEAN : BuildStage(fault) /\ UNCHANGED vmVars
    \/ \E fault \in BOOLEAN : BuildZip(fault) /\ UNCHANGED vmVars
    \/ \E fault \in BOOLEAN : BuildFinish(fault) /\ UNCHANGED vmVars
    \/ Return /\ UNCHANGED vmVars
    \/ \E version \in {V465, V466} : SetManifestVersion(version) /\ UNCHANGED vmVars

SpecSidecar == InitSidecar /\ [][NextSidecar]_vars

(***************************************************************************)
(* build.py: validate() and validate_config() at the head of build(), on   *)
(* control directories and manifests with and without defects.             *)
(***************************************************************************)
IconSizes == {0, 64, ICON_REQUIRED_SIZE, ICON_RECOMMENDED_SIZE}

Icons ==
    {[header |-> "png", width |-> w, height |-> h] : w \in IconSizes, h \in IconSizes}
        \cup {[GoodIcon EXCEPT !.header = h] : h \in {"short", "other"}}

(* the control directories: any of the required files, no optional file,   *)
(* start-stop.sh or all of them, any icon, any shebang and line ending     *)
ControlDirs ==
    {[FullControl EXCEPT !.is_dir = FALSE, !.files = {}, !.scripts = {}]}
        \cup {[is_dir |-> TRUE, files |-> required \cup optional, icon |-> icon,
               scripts |-> IF "start-stop.sh" \in optional
                           THEN {[name |-> "start-stop.sh", shebang |-> shebang,
                                  crlf |-> crlf]}
                           ELSE {}] :
                 required \in SUBSET Range(REQUIRED_CONTROL_FILES),
                 optional \in {{}, {"start-stop.sh"}, Range(OPTIONAL_CONTROL_FILES)},
                 icon \in Icons, shebang \in BOOLEAN, crlf \in BOOLEAN}

Versions ==
    {V465, V46, V465R1, DevVersion, <<"v">> \o V465, V465 \o <<"_", "b">>, <<"4">>,
     V465 \o <<"\n">>}

Firmwares ==
    {<<"3", ".", "6">>, <<"3", ".", "6", ".", "0">>, <<"3">>, <<"3", ".", "6", ".", "0", ".", "1">>,
     <<"A", "D", "M", "3">>}

Models ==
    {NoModel, [list |-> TRUE, value |-> <<"11xx">>], [list |-> TRUE, value |-> <<"99xx">>],
     [list |-> TRUE, value |-> <<"11xx", "99xx", "12xx">>],
     [list |-> FALSE, value |-> <<"11xx">>]}

(* the manifests: the valid ones with any version, firmware and model; one *)
(* required field removed, emptied or blank; a package or an architecture  *)
(* outside its pattern or enum; no general section                         *)
Manifests ==
    {[general |-> set_key(set_key(set_key(General, "version", v), "firmware", f),
                          "model", m)] : v \in Versions, f \in Firmwares, m \in Models}
        \cup ValidConfigs \cup InvalidConfigs
        \cup {[general |-> set_key(General, REQUIRED_FIELDS[i], e)] :
                 i \in DOMAIN REQUIRED_FIELDS, e \in {<<>>, <<" ">>, <<"\t", "\n">>}}
        \cup {[general |-> set_key(General, "package", p)] :
                 p \in {IO_APP \o <<"\n">>, <<" ">> \o IO_APP, <<"i", "o", "_", "a">>}}
        \cup {[general |-> set_key(General, "architecture", a)] :
                 a \in {ARM64, <<"X", "8", "6", "-", "6", "4">>, <<"x", "8", "6">>}}

InitValidate ==
    /\ repoTags = {}
    /\ manifestVersion = V465
    /\ last = Idle
    /\ chain = [b \in Bases |-> NoChain]
    /\ pc = "idle"
    /\ args = NoArgs
    /\ platform = "posix"
    /\ \/ /\ controlFiles \in ControlDirs
          /\ configFile \in {ManifestFile(c, "authored", "lf") :
                                c \in {[general |-> General],
                                       [general |-> set_key(General, "version", <<"4">>)],
                                       [general |-> without(General, "email")]}}
       \/ /\ controlFiles = FullControl
          /\ configFile \in {ManifestFile(c, "authored", "lf") : c \in Manifests}
    /\ config_backup = None
    /\ destination = [kind |-> "absent", files |-> {}]
    /\ temp_dir = NoTemp
    /\ output_dir = [exists |-> FALSE, content |-> {}]
    /\ exitStatus = NotEnded
    /\ unzip = NoUnzip
    /\ printed = {}
    /\ apk_dir = PlainTree
    /\ data_tar = None
    /\ control_tar = None
    /\ apk_zip = None
    /\ extracted = None
    /\ stages = <<>>
    /\ counter_file = None
    /\ issued = <<>>
    /\ checksums = InitialChecksums(destination.files)
    /\ arm64 = NoArm64

NextValidate ==
    \/ \E verbose \in BOOLEAN : Build(None, FALSE, verbose) /\ UNCHANGED vmVars
    \/ BuildValidateConfig /\ UNCHANGED vmVars
    \/ BuildOverride /\ UNCHANGED vmVars

SpecValidate == InitValidate /\ [][NextValidate]_vars

(***************************************************************************)
(* build.py: builds of package trees, on either host, whatever the owner   *)
(* and the permission bits of the tree there.                              *)
(***************************************************************************)
USR == <<"u", "s", "r">>
WEB == <<"w", "e", "b">>
B_PY == <<"b", ".", "p", "y">>
DOT_SH == <<".", "s", "h">>
TOOL == <<"t", "o", "o", "l">>
D_E == <<"d", "\\", "e">>

(* what a tree can hold besides its directories; the name with a backslash *)
(* is for a POSIX host only                                                *)
Leaves ==
    {Leaf(<<RUN_SH>>, "file"), Leaf(<<USR, B_PY>>, "file"), Leaf(<<DOT_SH>>, "file"),
     Leaf(<<CONTROL_DIR, C_JSON>>, "file"), Leaf(<<BIN_DIR, TOOL>>, "file"),
     Leaf(<<USR, BIN_DIR, TOOL>>, "file"), Leaf(<<WEB, CONTROL_DIR>>, "file"),
     Leaf(<<TOOL>>, "other"), Leaf(<<D_E>>, "file")}

HostModes == {"0600", "0777"}
HostOwners == {0, 1000}

InitTar ==
    /\ repoTags = {}
    /\ manifestVersion = V465
    /\ last = Idle
    /\ chain = [b \in Bases |-> NoChain]
    /\ pc = "idle"
    /\ args = NoArgs
    /\ platform \in {"posix", "win"}
    /\ controlFiles = FullControl
    /\ configFile = ManifestFile([general |-> General], "authored", "lf")
    /\ config_backup = None
    /\ destination = [kind |-> "absent", files |-> {}]
    /\ temp_dir = NoTemp
    /\ output_dir = [exists |-> FALSE, content |-> {}]
    /\ exitStatus = NotEnded
    /\ unzip = NoUnzip
    /\ printed = {}
    /\ \E lv \in SUBSET Leaves, mode \in HostModes, uid \in HostOwners :
           /\ platform = "win" => Leaf(<<D_E>>, "file") \notin lv
           /\ apk_dir = Tree(lv, mode, uid)
    /\ data_tar = None
    /\ control_tar = None
    /\ apk_zip = None
    /\ extracted = None
    /\ stages = <<>>
    /\ counter_file = None
    /\ issued = <<>>
    /\ checksums = InitialChecksums(destination.files)
    /\ arm64 = NoArm64

NextTar ==
    \/ Build(None, FALSE, FALSE) /\ UNCHANGED vmVars
    \/ BuildValidateConfig /\ UNCHANGED vmVars
    \/ BuildOverride /\ UNCHANGED vmVars
    \/ BuildMkdir /\ UNCHANGED vmVars
    \/ BuildMkdtemp(FALSE) /\ UNCHANGED vmVars
    \/ BuildStage(FALSE) /\ UNCHANGED vmVars
    \/ BuildZip(FALSE) /\ UNCHANGED vmVars
    \/ BuildFinish(FALSE) /\ UNCHANGED vmVars

SpecTar == InitTar /\ [][NextTar]_vars

(***************************************************************************)
(* build.py: a build of a package tree, and then extract_apk() on the      *)
(* artifact the build wrote, under either umask.                           *)
(***************************************************************************)
BuiltApk == [is_file |-> TRUE, members |-> Envelope]

InitArchive ==
    /\ repoTags = {}
    /\ manifestVersion = V465
    /\ last = Idle
    /\ chain = [b \in Bases |-> NoChain]
    /\ pc = "idle"
    /\ args = NoArgs
    /\ platform \in {"posix", "win"}
    /\ controlFiles = FullControl
    /\ configFile = ManifestFile([general |-> General], "authored", "lf")
    /\ config_backup = None
    /\ destination = [kind |-> "absent", files |-> {}]
    /\ temp_dir = NoTemp
    /\ output_dir = [exists |-> FALSE, content |-> {}]
    /\ exitStatus = NotEnded
    /\ unzip = NoUnzip
    /\ printed = {}
    /\ \E lv \in SUBSET Leaves, mode \in HostModes :
           /\ platform = "win" => Leaf(<<D_E>>, "file") \notin lv
           /\ apk_dir = Tree(lv, mode, 1000)
    /\ data_tar = None
    /\ control_tar = None
    /\ apk_zip = None
    /\ extracted = None
    /\ stages = <<>>
    /\ counter_file = None
    /\ issued = <<>>
    /\ checksums = {}
    /\ arm64 = NoArm64

NextArchive ==
    \/ apk_zip = None /\ Build(None, FALSE, FALSE) /\ UNCHANGED vmVars
    \/ BuildValidateConfig /\ UNCHANGED vmVars
    \/ BuildOverride /\ UNCHANGED vmVars
    \/ BuildMkdir /\ UNCHANGED vmVars
    \/ BuildMkdtemp(FALSE) /\ UNCHANGED vmVars
    \/ BuildStage(FALSE) /\ UNCHANGED vmVars
    \/ BuildZip(FALSE) /\ UNCHANGED vmVars
    \/ BuildFinish(FALSE) /\ UNCHANGED vmVars
    \/ extracted = None /\ Return /\ UNCHANGED vmVars
    \/ \E force \in BOOLEAN :
           apk_zip # None /\ ExtractApk(BuiltApk, force, FALSE) /\ UNCHANGED vmVars
    \/ ExtractUnzip /\ UNCHANGED vmVars
    \/ ExtractVerify /\ UNCHANGED vmVars
    \/ ExtractControl(FALSE) /\ UNCHANGED vmVars
    \/ ExtractOutput /\ UNCHANGED vmVars
    \/ ExtractUnpack(FALSE) /\ UNCHANGED vmVars

SpecArchive == InitArchive /\ [][NextArchive]_vars

(***************************************************************************)
(* build.py: main() with --dev, time after time, the version of the        *)
(* manifest edited between the builds.  The counter file starts absent, or *)
(* with a record of a version, with a legacy or a malformed content.       *)
(***************************************************************************)
EPOCH_V465 == <<"1", ":">> \o V465

DevBases == {V465, V466, EPOCH_V465}

CounterFiles ==
    {None, Some(<<"7">>), Some(V465 \o <<":", "x">>), Some(V465 \o <<":">>),
     Some(<<" ">> \o V465 \o <<":", "1", "\n">>), Some(V465 \o <<":", "-", "1">>)}
        \cup {Some(v \o <<":", "2">>) : v \in DevBases}

InitDev ==
    /\ repoTags = {}
    /\ manifestVersion = V465
    /\ last = Idle
    /\ chain = [b \in Bases |-> NoChain]
    /\ pc = "idle"
    /\ args = NoArgs
    /\ platform = "posix"
    /\ controlFiles = FullControl
    /\ configFile \in {ManifestFile([general |-> set_key(General, "version", v)],
                                    "authored", "lf") : v \in DevBases}
    /\ config_backup = None
    /\ destination = [kind |-> "dir", files |-> {}]
    /\ temp_dir = NoTemp
    /\ output_dir = [exists |-> FALSE, content |-> {}]
    /\ exitStatus = NotEnded
    /\ unzip = NoUnzip
    /\ printed = {}
    /\ apk_dir = PlainTree
    /\ data_tar = None
    /\ control_tar = None
    /\ apk_zip = None
    /\ extracted = None
    /\ stages = <<>>
    /\ counter_file \in CounterFiles
    /\ issued = <<>>
    /\ checksums = {}
    /\ arm64 = NoArm64

NextDev ==
    \/ MainDev /\ UNCHANGED vmVars
    \/ BuildValidateConfig /\ UNCHANGED vmVars
    \/ BuildOverride /\ UNCHANGED vmVars
    \/ BuildMkdir /\ UNCHANGED vmVars
    \/ BuildMkdtemp(FALSE) /\ UNCHANGED vmVars
    \/ BuildStage(FALSE) /\ UNCHANGED vmVars
    \/ BuildZip(FALSE) /\ UNCHANGED vmVars
    \/ BuildFinish(FALSE) /\ UNCHANGED vmVars
    \/ Return /\ UNCHANGED vmVars
    \/ \E v \in DevBases : SetManifestVersion(v) /\ UNCHANGED vmVars

SpecDev == InitDev /\ [][NextDev]_vars

(***************************************************************************)
(* build-arm64.py: main().  The manifest is read and stashed, rewritten    *)
(* for arm64 unless it is for arm64 already, build.py is run as a          *)
(* subprocess with the arguments of the command line, and the finally      *)
(* writes the stash back.                                                  *)
(***************************************************************************)
ARM64_MODELS == [list |-> TRUE, value |-> <<"33xx", "11xx", "1axx", "3axx", "12xx">>]

(* config['general']['architecture'] = 'arm64', config['general']['model'] *)
(* = ARM64_MODELS                                                          *)
arm64_config(config) ==
    [config EXCEPT !["general"] =
        set_key(set_key(@, "architecture", ARM64), "model", ARM64_MODELS)]

(* the finally of main(): `f.write(config_backup)` *)
Arm64Restore(backup, status) ==
    /\ configFile' = write_text(backup, platform)
    /\ arm64' = [arm64 EXCEPT !.pc = "done", !.status = status]

(* main() up to the subprocess: a manifest without general.architecture    *)
(* raises KeyError inside the try                                          *)
Arm64Main ==
    /\ arm64.pc = "idle" /\ pc = "idle"
    /\ \E backup \in {read_text(configFile)} :
         \E config \in {json_load(backup)} :
           IF "general" \notin DOMAIN config
                  \/ "architecture" \notin DOMAIN get(config, "general", <<>>)
           THEN /\ configFile' = write_text(backup, platform)
                /\ arm64' = [pc |-> "done", config_backup |-> Some(backup),
                             before |-> Some(configFile), status |-> 1]
           ELSE /\ arm64' = [pc |-> "build", config_backup |-> Some(backup),
                             before |-> Some(configFile), status |-> NotEnded]
                /\ configFile' = IF config["general"]["architecture"] = ARM64
                                 THEN configFile
                                 ELSE write_text(json_dump(arm64_config(config)), platform)
    /\ UNCHANGED <<pc, args, platform, apk_dir, data_tar, control_tar, apk_zip, extracted,
                   stages, counter_file, issued, checksums, printed, controlFiles,
                   config_backup, destination, temp_dir, output_dir, exitStatus, unzip>>

(* subprocess.run(cmd, check=True) has returned, or raised for a status    *)
(* that is not 0; the finally                                              *)
Arm64Finally ==
    /\ arm64.pc = "build" /\ pc = "done"
    /\ Arm64Restore(arm64.config_backup[1], exitStatus)
    /\ UNCHANGED <<pc, args, platform, apk_dir, data_tar, control_tar, apk_zip, extracted,
                   stages, counter_file, issued, checksums, printed, controlFiles,
                   config_backup, destination, temp_dir, output_dir, exitStatus, unzip>>

InitArm64 ==
    /\ repoTags = {}
    /\ manifestVersion = V465
    /\ last = Idle
    /\ chain = [b \in Bases |-> NoChain]
    /\ pc = "idle"
    /\ args = NoArgs
    /\ \E tree \in SourceTrees :
           /\ "config.json" \in tree.control.files
           /\ platform = tree.host
           /\ controlFiles = tree.control
           /\ configFile \in {tree.file,
                              [tree.file EXCEPT !.config = arm64_config([general |-> General])]}
    /\ config_backup = None
    /\ destination \in {[kind |-> "dir", files |-> {}], [kind |-> "file", files |-> {}]}
    /\ temp_dir = NoTemp
    /\ output_dir = [exists |-> FALSE, content |-> {}]
    /\ exitStatus = NotEnded
    /\ unzip = NoUnzip
    /\ printed = {}
    /\ apk_dir = PlainTree
    /\ data_tar = None
    /\ control_tar = None
    /\ apk_zip = None
    /\ extracted = None
    /\ stages = <<>>
    /\ counter_file = None
    /\ issued = <<>>
    /\ checksums = {}
    /\ arm64 = NoArm64

NextArm64 ==
    \/ Arm64Main /\ UNCHANGED vmVars
    \/ arm64.pc = "build" /\ Build(None, FALSE, FALSE) /\ UNCHANGED vmVars
    \/ arm64.pc = "build" /\ MainDev /\ UNCHANGED vmVars
    \/ BuildValidateConfig /\ UNCHANGED vmVars
    \/ BuildOverride /\ UNCHANGED vmVars
    \/ BuildMkdir /\ UNCHANGED vmVars
    \/ \E fault \in BOOLEAN : BuildMkdtemp(fault) /\ UNCHANGED vmVars
    \/ \E fault \in BOOLEAN : BuildStage(fault) /\ UNCHANGED vmVars
    \/ \E fault \in BOOLEAN : BuildZip(fault) /\ UNCHANGED vmVars
    \/ \E fault \in BOOLEAN : BuildFinish(fault) /\ UNCHANGED vmVars
    \/ Arm64Finally /\ UNCHANGED vmVars

SpecArm64 == InitArm64 /\ [][NextArm64]_vars

(***************************************************************************)
(* safe_extract_zip on its own inputs: any destination, any members.       *)
(***************************************************************************)
MaxMembers == 2

DestPaths ==
    {<<"/", "t", "/", "d">>, <<"/", "t">>, <<"/", "t", "/", "d", "/", "..", "/", "w">>,
     <<"/">>}

MemberNames ==
    {<<"a">>, <<"s", "/", "a">>, <<".", "/", "a">>, <<"a", "/", "..", "/", "b">>,
     Escape, <<"s", "/", "..", "/", "..", "/", "e">>, <<"/", "e">>,
     <<"/", "t", "/", "d", "/", "x">>, <<"/", "t", "/", "d", "2", "/", "x">>}

MemberLists == UNION {[1..n -> MemberNames] : n \in 0..MaxMembers}

SafeExtractZip(members, dest_path) ==
    /\ pc = "idle"
    /\ pc' = "done"
    /\ \E r \in {safe_extract_zip(members, dest_path)} :
           unzip' = [dest_path |-> dest_path, members |-> members,
                     raised |-> r.raised, written |-> r.written]
    /\ UNCHANGED <<args, platform, apk_dir, data_tar, control_tar, apk_zip, extracted,
                   stages, counter_file, issued, checksums, arm64, printed, controlFiles,
                   configFile, config_backup, destination, temp_dir, output_dir, exitStatus>>

InitZip ==
    /\ repoTags = {}
    /\ manifestVersion = V465
    /\ last = Idle
    /\ chain = [b \in Bases |-> NoChain]
    /\ ApkAtRest

NextZip ==
    \E members \in MemberLists, dest_path \in DestPaths :
        SafeExtractZip(members, dest_path) /\ UNCHANGED vmVars

SpecZip == InitZip /\ [][NextZip]_vars

(***************************************************************************)
(* main() of version-manager.py: one action per command.                   *)
(***************************************************************************)

(* `--get-next --base B` *)
GetNextBase(B, gitOk) ==
    \E tags \in {get_git_tags(repoTags, gitOk)} :
        /\ last.op = "none"
        /\ last' = [Idle EXCEPT !.op = "get-next", !.base = B, !.gitOk = gitOk,
                                !.listing = tags, !.before = manifestVersion,
                                !.result = get_next_version(tags, B)]
        /\ UNCHANGED <<repoTags, manifestVersion>>

(* `--get-next`: the base is the one of the current manifest version *)
GetNextCurrent(gitOk) ==
    \E pv \in {parse_version(manifestVersion)}, tags \in {get_git_tags(repoTags, gitOk)} :
        /\ last.op = "none"
        /\ last' = IF ~pv.ok
                   THEN [Idle EXCEPT !.op = "get-next", !.ok = FALSE,
                                     !.before = manifestVersion]
                   ELSE [Idle EXCEPT !.op = "get-next", !.base = pv.base,
                                     !.gitOk = gitOk, !.listing = tags,
                                     !.before = manifestVersion,
                                     !.result = get_next_version(tags, pv.base)]
        /\ UNCHANGED <<repoTags, manifestVersion>>

(* `--update` *)
Update(gitOk) ==
    \E pv \in {parse_version(manifestVersion)}, tags \in {get_git_tags(repoTags, gitOk)} :
    \E next_version \in {IF pv.ok THEN get_next_version(tags, pv.base) ELSE <<>>} :
        /\ last.op = "none"
        /\ last' = IF ~pv.ok
                   THEN [Idle EXCEPT !.op = "update", !.ok = FALSE,
                                     !.before = manifestVersion]
                   ELSE [Idle EXCEPT !.op = "update", !.base = pv.base,
                                     !.gitOk = gitOk, !.listing = tags,
                                     !.before = manifestVersion,
                                     !.result = next_version]
        /\ manifestVersion' = IF pv.ok THEN next_version ELSE manifestVersion
        /\ UNCHANGED repoTags

(* `--set VERSION` *)
SetVersion(target_base, gitOk) ==
    \E valid \in {set_format_ok(target_base)}, tags \in {get_git_tags(repoTags, gitOk)} :
    \E next_version \in {IF valid THEN get_next_version(tags, target_base) ELSE <<>>} :
        /\ last.op = "none"
        /\ last' = IF ~valid
                   THEN [Idle EXCEPT !.op = "set", !.ok = FALSE, !.base = target_base,
                                     !.before = manifestVersion]
                   ELSE [Idle EXCEPT !.op = "set", !.base = target_base,
                                     !.gitOk = gitOk, !.listing = tags,
                                     !.before = manifestVersion,
                                     !.result = next_version]
        /\ manifestVersion' = IF valid THEN next_version ELSE manifestVersion
        /\ UNCHANGED repoTags

(* `--bump-revision` *)
BumpRevision ==
    \E pv \in {parse_version(manifestVersion)} :
    \E next_version \in {IF pv.ok THEN bump_revision(manifestVersion) ELSE <<>>} :
        /\ last.op = "none"
        /\ pv.ok => OrZero(pv.revision) <= MaxRev
        /\ last' = IF ~pv.ok
                   THEN [Idle EXCEPT !.op = "bump", !.ok = FALSE,
                                     !.before = manifestVersion]
                   ELSE [Idle EXCEPT !.op = "bump", !.base = pv.base,
                                     !.before = manifestVersion,
                                     !.result = next_version]
        /\ manifestVersion' = IF pv.ok THEN next_version ELSE manifestVersion
        /\ UNCHANGED repoTags

(* `--check`: "true" when a revision is needed *)
Check(gitOk) ==
    \E pv \in {parse_version(manifestVersion)}, tags \in {get_git_tags(repoTags, gitOk)} :
        /\ last.op = "none"
        /\ last' = IF ~pv.ok
                   THEN [Idle EXCEPT !.op = "check", !.ok = FALSE,
                                     !.before = manifestVersion]
                   ELSE [Idle EXCEPT !.op = "check", !.base = pv.base,
                                     !.gitOk = gitOk, !.listing = tags,
                                     !.before = manifestVersion,
                                     !.result = IF check_needs_revision(tags, pv.base)[1]
                                                THEN <<"true">> ELSE <<"false">>]
        /\ UNCHANGED <<repoTags, manifestVersion>>

(* `--current` (not quiet): the version, then its parse *)
Current ==
    \E pv \in {parse_version(manifestVersion)} :
        /\ last.op = "none"
        /\ last' = [Idle EXCEPT !.op = "current", !.ok = pv.ok,
                                !.before = manifestVersion,
                                !.result = manifestVersion, !.parsed = pv]
        /\ UNCHANGED <<repoTags, manifestVersion>>

(* parse_version(format_version(base, rev)) *)
FormatParse(base, rev) ==
    \E formatted \in {format_version(base, rev)} :
        /\ last.op = "none"
        /\ last' = [Idle EXCEPT !.op = "format-parse", !.base = base, !.rev = rev,
                                !.before = manifestVersion,
                                !.result = formatted,
                                !.parsed = parse_version(formatted)]
        /\ UNCHANGED <<repoTags, manifestVersion>>

(* the process ends: its output is consumed, the next command starts afresh *)
Exit ==
    /\ last.op # "none"
    /\ last' = Idle
    /\ UNCHANGED <<repoTags, manifestVersion>>

InitVersion ==
    /\ repoTags \in {H \in SUBSET TagPool : Cardinality(H) <= MaxTags}
    /\ manifestVersion \in ManifestVersions
    /\ last = Idle
    /\ chain = [b \in Bases |-> NoChain]
    /\ ApkAtRest

NextVersion ==
    \/ \E B \in BaseArgs, gitOk \in BOOLEAN : GetNextBase(B, gitOk) /\ UNCHANGED <<chain, apkVars>>
    \/ \E gitOk \in BOOLEAN : GetNextCurrent(gitOk) /\ UNCHANGED <<chain, apkVars>>
    \/ \E gitOk \in BOOLEAN : Update(gitOk) /\ UNCHANGED <<chain, apkVars>>
    \/ \E B \in BaseArgs, gitOk \in BOOLEAN : SetVersion(B, gitOk) /\ UNCHANGED <<chain, apkVars>>
    \/ BumpRevision /\ UNCHANGED <<chain, apkVars>>
    \/ \E gitOk \in BOOLEAN : Check(gitOk) /\ UNCHANGED <<chain, apkVars>>
    \/ Current /\ UNCHANGED <<chain, apkVars>>
    \/ Exit /\ UNCHANGED <<chain, apkVars>>

SpecVersion == InitVersion /\ [][NextVersion]_vars

(***************************************************************************)
(* version-manager.py on the manifests validate_config of build.py lets    *)
(* through: versions of two, three and four numbers, with and without a    *)
(* revision, and versions it warns about.                                  *)
(***************************************************************************)
V4651 == V465 \o <<".", "1">>

ValidatedVersions ==
    {V465, V46, V4651, WithRev(V465, 1), WithRev(V46, 1), WithRev(V4651, 1), DevVersion,
     <<"4">>, V465 \o <<"\n">>, V46 \o <<"\n">>}

InitFormats ==
    /\ repoTags \in {H \in SUBSET TagPool : Cardinality(H) <= MaxTags}
    /\ manifestVersion \in ValidatedVersions
    /\ last = Idle
    /\ chain = [b \in Bases |-> NoChain]
    /\ ApkAtRest

SpecFormats == InitFormats /\ [][NextVersion]_vars

(***************************************************************************)
(* The round trip of format_version and parse_version, on its own inputs.  *)
(***************************************************************************)
InitRoundTrip ==
    /\ repoTags = {}
    /\ manifestVersion = V465
    /\ last = Idle
    /\ chain = [b \in Bases |-> NoChain]
    /\ ApkAtRest

NextRoundTrip ==
    \/ \E b \in RoundTripBases, r \in RoundTripRevs : FormatParse(b, r) /\ UNCHANGED <<chain, apkVars>>
    \/ Exit /\ UNCHANGED <<chain, apkVars>>

SpecRoundTrip == InitRoundTrip /\ [][NextRoundTrip]_vars

(***************************************************************************)
(* Releases: each version get_next_version returns may be published as a   *)
(* tag, and other tags may appear in the repository.  chain[B] follows the *)
(* calls for base B for as long as each returned version is published      *)
(* before the next call and the listing is obtained: n calls so far, the   *)
(* last version returned, the revision the run started at, and whether the *)
(* repository held no tag of base B when the run started.                  *)
(***************************************************************************)
HasBase(t, B) ==
    \/ t = TagOf(B)
    \/ /\ Len(t) > Len(B) + 3
       /\ SubSeq(t, 1, Len(B) + 3) = TagOf(B) \o <<".", "r">>
       /\ AllDigits(SubSeq(t, Len(B) + 4, Len(t)))

RevOf(t, B) == IF t = TagOf(B) THEN 0 ELSE StrToInt(SubSeq(t, Len(B) + 4, Len(t)))

Release(B, gitOk) ==
    /\ GetNextBase(B, gitOk)
    /\ chain' = [chain EXCEPT ![B] =
           IF ~gitOk THEN NoChain
           ELSE IF chain[B].n > 0 /\ TagOf(chain[B].last) \in repoTags
           THEN [chain[B] EXCEPT !.n = chain[B].n + 1, !.last = last'.result]
           ELSE [n |-> 1, last |-> last'.result,
                 start |-> OrZero(parse_version(last'.result).revision),
                 fresh |-> \A t \in repoTags : ~HasBase(t, B)]]

(* the version last returned for base B is published: git tag v<version> *)
Publish(B) ==
    /\ last.op = "none"
    /\ chain[B].n > 0
    /\ TagOf(chain[B].last) \notin repoTags
    /\ chain[B].start + chain[B].n - 1 <= MaxRev
    /\ repoTags' = repoTags \cup {TagOf(chain[B].last)}
    /\ UNCHANGED <<manifestVersion, last, chain>>

(* somebody else pushes a tag *)
ExternalPool == {TagOf(V465), TagOf(WithRev(V465, 1)), TagOf(V466), TagOf(V46)}

ExternalTag(t) ==
    /\ last.op = "none"
    /\ t \notin repoTags
    /\ Cardinality({u \in repoTags : ~\E b \in Bases : chain[b].n > 0 /\ HasBase(u, b)}) < MaxExternal
    /\ repoTags' = repoTags \cup {t}
    /\ chain' = [b \in Bases |-> IF HasBase(t, b) THEN NoChain ELSE chain[b]]
    /\ UNCHANGED <<manifestVersion, last>>

InitRelease ==
    /\ repoTags = {}
    /\ manifestVersion = V465
    /\ last = Idle
    /\ chain = [b \in Bases |-> NoChain]
    /\ ApkAtRest

NextRelease ==
    \/ \E B \in Bases, gitOk \in BOOLEAN : Release(B, gitOk) /\ UNCHANGED apkVars
    \/ \E B \in Bases : Publish(B) /\ UNCHANGED apkVars
    \/ \E t \in ExternalPool : ExternalTag(t) /\ UNCHANGED apkVars
    \/ Exit /\ UNCHANGED <<chain, apkVars>>

SpecRelease == InitRelease /\ [][NextRelease]_vars

(***************************************************************************)
(* Claims about the builder, the extractor and the lister.                 *)
(***************************************************************************)
BuildEnded == pc = "done" /\ args.cmd = "build"

(* C1: in build() with a version override, once the manifest has been      *)
(* overwritten, every way the build ends leaves the text of the manifest   *)
(* file equal to the stash.                                                *)
C1_ManifestRestored ==
    (BuildEnded /\ config_backup # None) => read_text(configFile) = config_backup[1]

ValidationFailed ==
    \/ ~validate(args.before.controlFiles)
    \/ ~validate_config(get_config(args.before.configFile))

(* C2: a build whose validate() or validate_config() fails ends with a     *)
(* non-zero status, the output directory as it was (no artifact created),  *)
(* no workspace and so no archive written, and the manifest file as it was *)
(* before the build, with or without a version override.                   *)
C2_ValidationFailureWritesNothing ==
    (BuildEnded /\ ValidationFailed)
        => /\ exitStatus = 1
           /\ destination = args.before.destination
           /\ temp_dir = NoTemp
           /\ configFile = args.before.configFile
           /\ config_backup = None

C2_Witness ==
    /\ BuildEnded
    /\ args.version_override = Some(DevVersion)
    /\ validate(args.before.controlFiles)
    /\ args.config = [general |-> without(General, "architecture")]
    /\ exitStatus = 1
    /\ destination = [kind |-> "dir", files |-> OldFiles]

IsBelow(path, root) ==
    Len(path) > Len(root) /\ \A i \in DOMAIN root : path[i] = root[i]

(* C8: safe_extract_zip writes only at paths below the destination root,   *)
(* and on a member that resolves outside the root ('../escape.txt', an     *)
(* absolute path elsewhere) it raises before it writes anything of that    *)
(* member or of a later one, for every destination root.                   *)
C8_NoWriteOutside ==
    pc = "done" =>
        LET root == resolve(unzip.dest_path)
            outside(i) == ~IsBelow(member_path(root, unzip.members[i]), root)
        IN  /\ \A i \in DOMAIN unzip.written : IsBelow(unzip.written[i], root)
            /\ \A i \in DOMAIN unzip.members :
                   outside(i) => /\ unzip.raised \in 1..i
                                 /\ Len(unzip.written) < i
            /\ \A i \in DOMAIN unzip.members :
                   (root # <<>> /\ unzip.members[i] \in {Escape, <<"/", "e">>})
                       => outside(i)
            /\ unzip.raised # 0 => outside(unzip.raised)

C8_Witness ==
    /\ pc = "done"
    /\ unzip.dest_path = <<"/", "t", "/", "d", "/", "..", "/", "w">>
    /\ unzip.members = <<<<"s", "/", "a">>, Escape>>
    /\ unzip.raised = 2
    /\ unzip.written = <<<<"t", "w", "s", "a">>>>

C10_FormatError ==
    (/\ pc = "done" /\ args.cmd \in {"extract", "list"}
     /\ unzip.dest_path = TempRoot /\ unzip.raised = 0
     /\ \E i \in DOMAIN APK_CONTENTS : <<APK_CONTENTS[i]>> \notin Range(unzip.members))
        => exitStatus = 1

(* C11: when the target directory exists, extract_apk without force ends   *)
(* with a non-zero status and the directory as it was; with force the      *)
(* directory is removed before anything is unpacked, so it ends up holding *)
(* content of the envelope only.                                           *)
C11_DestinationConflict ==
    /\ (pc = "done" /\ args.cmd = "extract" /\ args.before.output_dir.exists)
          => IF ~args.force
             THEN exitStatus = 1 /\ output_dir = args.before.output_dir
             ELSE \/ output_dir = args.before.output_dir
                  \/ /\ output_dir.exists
                     /\ output_dir.content \subseteq {"data", "CONTROL"}
                     /\ exitStatus = 0 => output_dir.content = {"data", "CONTROL"}
    /\ pc = "unpack" => output_dir = [exists |-> TRUE, content |-> {}]

C11_Witness ==
    /\ pc = "done" /\ args.cmd = "extract"
    /\ args.force
    /\ args.before.output_dir = [exists |-> TRUE, content |-> {"old"}]
    /\ exitStatus = 0
    /\ output_dir = [exists |-> TRUE, content |-> {"data", "CONTROL"}]

(* the artifacts of the package and architecture among files, and the      *)
(* version each carries between the package and the architecture           *)
ArtifactsOf(files, package, arch) ==
    {f \in files : glob_star(f.name, package, arch) # <<>>}

VersionIn(f, package, arch) == glob_star(f.name, package, arch)[1]

BuildSucceeded == pc = "done" /\ args.cmd = "build" /\ exitStatus = 0

(* C12: after a successful production build of version V for package P and *)
(* architecture A, the one artifact P_*_A of the output directory whose    *)
(* version holds no ".dev" is the artifact of V, and every artifact whose  *)
(* version holds ".dev" is still in the directory.                         *)
C12_ProductionPruning ==
    (BuildSucceeded /\ ~args.is_dev_build) =>
        \E g \in {args.config["general"]} :
            /\ \A f \in ArtifactsOf(destination.files, g["package"], g["architecture"]) :
                   ~Contains(VersionIn(f, g["package"], g["architecture"]), DevMarker)
                       => f.name = apk_filename(g["package"], g["version"],
                                                g["architecture"])
            /\ \E f \in destination.files :
                   f.name = apk_filename(g["package"], g["version"], g["architecture"])
            /\ \A f \in ArtifactsOf(args.before.destination.files,
                                     g["package"], g["architecture"]) :
                   Contains(VersionIn(f, g["package"], g["architecture"]), DevMarker)
                       => f \in destination.files

(* the dev builds of the package and architecture among files *)
DevArtifactsOf(files, package, arch) ==
    {f \in ArtifactsOf(files, package, arch) :
        Contains(VersionIn(f, package, arch), DevMarker)}

(* C13: after a successful dev build for package P and architecture A, at  *)
(* most MAX_DEV_BUILDS = 5 dev artifacts of P and A remain, and they are   *)
(* the 5 (or all, when fewer) of most recent modification time among those *)
(* in the directory before the pruning; this after each build of any       *)
(* sequence of builds.                                                     *)
C13_DevPruning ==
    (BuildSucceeded /\ args.is_dev_build) =>
        \E g \in {args.config["general"]} :
          \E present \in {DevArtifactsOf(
                              write_file(args.before.destination.files,
                                         apk_filename(g["package"], g["version"],
                                                      g["architecture"])),
                              g["package"], g["architecture"])},
             remain \in {DevArtifactsOf(destination.files, g["package"],
                                        g["architecture"])} :
            /\ MAX_DEV_BUILDS = 5
            /\ Cardinality(remain) <= 5
            /\ remain \subseteq present
            /\ Cardinality(remain) = Min({5, Cardinality(present)})
            /\ \A x \in remain, y \in present \ remain : x.mtime >= y.mtime

(* a dev build into a directory of six dev builds, the first the oldest,   *)
(* has left the five newest                                                *)
C13_Witness ==
    /\ BuildSucceeded /\ args.is_dev_build
    /\ args.before.destination.files = DevFiles(MAX_DEV_BUILDS + 1, "oldest first")
    /\ {f.name : f \in destination.files} =
           {apk_filename(IO_APP, DevVersionNo(i), X86_64) : i \in 4..7}
               \cup {apk_filename(IO_APP, DevVersionNo(3), X86_64)}

(* the manifest has a general section, and a field is there and not blank *)
HasGeneral(config) == "general" \in DOMAIN config

Blank(s) == \A i \in DOMAIN s : s[i] \in Whitespace

Filled(config, field) ==
    /\ field \in DOMAIN config["general"]
    /\ ~Blank(config["general"][field])

NonEmpty(config, field) ==
    /\ field \in DOMAIN config["general"]
    /\ config["general"][field] # <<>>

PackageAndArchitectureValid(config) ==
    /\ config["general"]["package"] # <<>>
    /\ \A i \in DOMAIN config["general"]["package"] :
           config["general"]["package"][i] \in PackageChars
    /\ config["general"]["architecture"] \in {X86_64, ARM64, ANY}

(* C14, as the spec has it: validate_config returns true for every         *)
(* manifest whose general section holds the nine required fields as        *)
(* non-empty strings with a valid package identifier and architecture, and *)
(* false when a required field or the general section is removed or a      *)
(* field emptied.                                                          *)
C14_NonEmptyFieldsAccepted ==
    args.config_valid # None =>
        /\ ( /\ HasGeneral(args.config)
             /\ \A i \in DOMAIN REQUIRED_FIELDS : NonEmpty(args.config, REQUIRED_FIELDS[i])
             /\ PackageAndArchitectureValid(args.config) )
               => args.config_valid = Some(TRUE)
        /\ ( \/ ~HasGeneral(args.config)
             \/ \E i \in DOMAIN REQUIRED_FIELDS : ~NonEmpty(args.config, REQUIRED_FIELDS[i]) )
               => args.config_valid = Some(FALSE)

(* C14: validate_config returns true for every manifest whose general      *)
(* section holds the nine required fields as strings that are not empty    *)
(* once stripped of surrounding whitespace, with a valid package           *)
(* identifier and architecture; it returns false when a required field is  *)
(* removed, emptied or left with whitespace only, and when the general     *)
(* section is removed.                                                     *)
C14_FilledFieldsAccepted ==
    args.config_valid # None =>
        /\ ( /\ HasGeneral(args.config)
             /\ \A i \in DOMAIN REQUIRED_FIELDS : Filled(args.config, REQUIRED_FIELDS[i])
             /\ PackageAndArchitectureValid(args.config) )
               => args.config_valid = Some(TRUE)
        /\ ( \/ ~HasGeneral(args.config)
             \/ \E i \in DOMAIN REQUIRED_FIELDS : ~Filled(args.config, REQUIRED_FIELDS[i]) )
               => args.config_valid = Some(FALSE)

(* a manifest whose website is a tab and a newline has been rejected *)
C14_Witness ==
    /\ args.config = [general |-> set_key(General, "website", <<"\t", "\n">>)]
    /\ args.config_valid = Some(FALSE)
    /\ pc = "done" /\ exitStatus = 1

(* C15: validate_config returns false only when a required field is        *)
(* missing or empty: a manifest with every required field present and not  *)
(* empty is never rejected for a format, pattern or enum mismatch.          *)
C15_OnlyRequiredFieldsFatal ==
    args.config_valid = Some(FALSE) =>
        \/ ~HasGeneral(args.config)
        \/ \E i \in DOMAIN REQUIRED_FIELDS : ~Filled(args.config, REQUIRED_FIELDS[i])

(* the control directory and the manifest with the defects that only warn  *)
(* repaired: every optional file there, a 90x90 icon, scripts with shebang  *)
(* and Unix line endings; a version and a firmware that match their        *)
(* pattern, no model                                                       *)
WithoutControlDefects(control) ==
    [control EXCEPT !.files = @ \cup Range(OPTIONAL_CONTROL_FILES),
                    !.icon = GoodIcon,
                    !.scripts = {[sh EXCEPT !.shebang = TRUE, !.crlf = FALSE] : sh \in @}]

Repaired(g, field, value) ==
    IF field \in DOMAIN g /\ ~Blank(g[field]) THEN set_key(g, field, value) ELSE g

WithoutConfigDefects(config) ==
    IF HasGeneral(config)
    THEN [general |-> Repaired(Repaired(without(config["general"], "model"),
                                        "version", V465),
                               "firmware", <<"3", ".", "6">>)]
    ELSE config

(* C16: a version or firmware that does not match its pattern, an unknown  *)
(* model code, an icon of any size, a missing optional control file, a     *)
(* script without shebang or with CRLF line endings leave validate() and   *)
(* validate_config() returning what they return without the defect, and    *)
(* the build goes on unless one of them returned false.                    *)
C16_WarningsNeverFatal ==
    /\ args.valid # None
          => args.valid[1] = validate(WithoutControlDefects(args.before.controlFiles))
    /\ args.config_valid # None
          => args.config_valid[1] = validate_config(WithoutConfigDefects(args.config))
    /\ BuildEnded
          => \/ ~validate(WithoutControlDefects(args.before.controlFiles))
             \/ ~validate_config(WithoutConfigDefects(get_config(args.before.configFile)))

(* a build with a 256x64 icon, a script with CRLF line endings and without *)
(* shebang, the optional files missing and the version "4" has passed both *)
(* validations with the five warnings                                      *)
C16_Witness ==
    /\ pc = "mkdir"
    /\ args.verbose
    /\ controlFiles.icon = [header |-> "png", width |-> 256, height |-> 64]
    /\ controlFiles.files = {"config.json", "icon.png", "start-stop.sh"}
    /\ args.config["general"]["version"] = <<"4">>
    /\ {m.text : m \in {w \in printed : w.level = "warn"}} =
           {"Icon should be square", "Script missing shebang",
            "Script has Windows line endings (CRLF)", "Optional file missing",
            "Version may not follow semantic versioning"}

(* C17: validate() returns false exactly when the control directory is     *)
(* missing or config.json or icon.png is missing in it; the optional files *)
(* do not change what it returns.                                          *)
C17_RequiredControlFiles ==
    args.valid # None =>
        /\ args.valid = Some(FALSE)
              <=> \/ ~args.before.controlFiles.is_dir
                  \/ "config.json" \notin args.before.controlFiles.files
                  \/ "icon.png" \notin args.before.controlFiles.files
        /\ \A optional \in {{}, Range(OPTIONAL_CONTROL_FILES)} :
               args.valid[1] =
                   validate([args.before.controlFiles EXCEPT
                                !.files = (@ \ Range(OPTIONAL_CONTROL_FILES)) \cup optional])

(* a control directory with every optional file and config.json but no     *)
(* icon.png has been refused                                               *)
C17_Witness ==
    /\ BuildEnded /\ exitStatus = 1
    /\ args.valid = Some(FALSE)
    /\ controlFiles.is_dir
    /\ controlFiles.files = {"config.json"} \cup Range(OPTIONAL_CONTROL_FILES)

(* the warnings validate() has printed about the icon *)
IconWarnings == {m \in printed : m.level = "warn" /\ m.subject = "icon.png"}

(* C18: for an icon whose PNG header declares width w and height h,        *)
(* validate() prints no size warning when w = h = 90, the Developer Corner *)
(* warning when w = h = 256, the square warning whenever w differs from h, *)
(* the generic size warning for any other square size, and never more than *)
(* one of them.                                                            *)
C18_IconWarnings ==
    (args.valid = Some(TRUE) /\ controlFiles.icon.header = "png") =>
        \E w \in {controlFiles.icon.width}, h \in {controlFiles.icon.height} :
            /\ (w = 90 /\ h = 90) => IconWarnings = {}
            /\ (w = 256 /\ h = 256)
                  => {m.text : m \in IconWarnings} = {"256x256 is for Developer Corner"}
            /\ w # h => {m.text : m \in IconWarnings} = {"Icon should be square"}
            /\ (w = h /\ w \notin {90, 256})
                  => {m.text : m \in IconWarnings} = {"ASUSTOR requires exactly 90x90"}
            /\ Cardinality(IconWarnings) <= 1

(* the path of a node written with forward slashes, behind "./" *)
ForwardSlashPath(parts) ==
    <<".", "/">> \o [i \in DOMAIN Join(parts, "/") |->
                       IF Join(parts, "/")[i] = "\\" THEN "/" ELSE Join(parts, "/")[i]]

(* C19: data.tar.gz holds an entry for every file and directory under the  *)
(* package root, a path being omitted only when it is, or lies inside, the *)
(* top-level CONTROL or the top-level bin of the package root.             *)
C19_PayloadEntries ==
    data_tar # None =>
        \A n \in {x \in apk_dir : x.kind \in {"file", "dir"}} :
            \/ \E e \in data_tar[1] : e.name = ForwardSlashPath(n.parts) /\ e.type = n.kind
            \/ n.parts[1] \in {CONTROL_DIR, BIN_DIR}

ScriptName(name) ==
    /\ Len(name) > 3
    /\ SubSeq(name, Len(name) - 2, Len(name)) \in {<<".", "s", "h">>, <<".", "p", "y">>}

BadEnvelope ==
    /\ args.cmd = "extract" /\ args.apk.is_file
    /\ \/ Escape \in Range(args.apk.members)
       \/ \E i \in DOMAIN APK_CONTENTS : <<APK_CONTENTS[i]>> \notin Range(args.apk.members)

(* C23: extract_apk on an envelope with a path-traversal entry or without  *)
(* one of the three required entries never comes to the reconstruction:    *)
(* it ends with status 1, and the output directory stays as it was, absent *)
(* or with what it held, with force as without.                            *)
C23_FailsBeforeReconstruction ==
    BadEnvelope =>
        /\ pc \notin {"control", "output", "unpack"}
        /\ output_dir = args.before.output_dir
        /\ extracted = None
        /\ pc = "done" => exitStatus = 1

(* with force, on an envelope of the three entries and then ../escape.txt, *)
(* the three were unzipped in the workspace, the fourth raised, and the    *)
(* directory that was there holds what it held                             *)
C23_Witness ==
    /\ pc = "done" /\ args.cmd = "extract" /\ args.force
    /\ args.apk.members = Envelope \o <<Escape>>
    /\ unzip.raised = 4 /\ Len(unzip.written) = 3
    /\ exitStatus = 1
    /\ output_dir = [exists |-> TRUE, content |-> {"old"}]

(* the text of the counter file is the record 'v:counter' of the version   *)
(* v, with whitespace around it or not: what is before the last colon is   *)
(* v, and what is after it a number                                        *)
RecordOf(file) ==
    Let(strip(file[1]), LAMBDA content :
        Let(Max({0} \cup {i \in DOMAIN content : content[i] = ":"}), LAMBDA i :
            [version |-> SubSeq(content, 1, i - 1),
             counter |-> to_int(SubSeq(content, i + 1, Len(content))),
             colon |-> i > 0]))

NamesVersion(file, v) ==
    /\ file # None
    /\ RecordOf(file).colon
    /\ RecordOf(file).version = v
    /\ RecordOf(file).counter # None

(* C24: get_dev_build_number(v) returns the stored counter plus one when   *)
(* the record of the counter file names the version v, and 1 in every      *)
(* other case, and leaves the record 'v:counter' in the file; so dev       *)
(* builds one after another on one manifest version are numbered each one  *)
(* more than the last, and the first after a change of the version is      *)
(* numbered 1.                                                             *)
C24_DevBuildNumber ==
    \A i \in DOMAIN issued :
        /\ issued[i].dev_number =
               IF NamesVersion(issued[i].stored, issued[i].package_version)
               THEN RecordOf(issued[i].stored).counter[1] + 1
               ELSE 1
        /\ i = Len(issued)
              => counter_file = Some(issued[i].package_version \o <<":">>
                                         \o str(issued[i].dev_number))
        /\ i > 1 => issued[i].dev_number =
                        IF issued[i].package_version = issued[i - 1].package_version
                        THEN issued[i - 1].dev_number + 1
                        ELSE 1

(* the package an artifact or a checksum file is of, the text before the   *)
(* first underscore of its name, and its architecture, the text between    *)
(* the last underscore and ".apk"                                          *)
PackageOf(name) == Split(name, "_")[1]

ArchOf(name) ==
    Let(IF EndsWith(name, ShaSuffix)
        THEN SubSeq(name, 1, Len(name) - Len(ShaSuffix)) ELSE name, LAMBDA apk :
        Let(Split(SubSeq(apk, 1, Len(apk) - Len(ApkSuffix)), "_") \o <<>>, LAMBDA parts :
            parts[Len(parts)]))

(* C25: a build for the package P and the architecture A, production or    *)
(* dev, leaves in the output directory every artifact and every checksum   *)
(* file of another architecture or of another package, a package whose     *)
(* identifier begins with P (io.app2 beside io.app) included.              *)
C25_PruningFrame ==
    args.cmd = "build" =>
        \E g \in {get_config(args.before.configFile)["general"]} :
            \A f \in args.before.destination.files :
                (PackageOf(f.name) # g["package"] \/ ArchOf(f.name) # g["architecture"])
                    => f \in destination.files

(* a production build of io.app 4.6.5 for x86-64 has removed the release   *)
(* 4.6.6 of io.app for x86-64 and its checksum file, and left those of     *)
(* io.app2 and of arm64                                                    *)
C25_Witness ==
    /\ BuildSucceeded /\ ~args.is_dev_build
    /\ args.before.destination.files = OtherFiles
    /\ \A f \in destination.files :
           f.name \notin {apk_filename(IO_APP, V466, X86_64),
                          apk_filename(IO_APP, V466, X86_64) \o ShaSuffix}
    /\ \A name \in {apk_filename(IO_APP2, V466, X86_64),
                    apk_filename(IO_APP2, V466, X86_64) \o ShaSuffix,
                    apk_filename(IO_APP2, DevVersionNo(1), X86_64),
                    apk_filename(IO_APP, V466, ARM64),
                    apk_filename(IO_APP, V466, ARM64) \o ShaSuffix,
                    apk_filename(IO_APP, DevVersionNo(1), ARM64)} :
           \E f \in destination.files : f.name = name

(* C26: when main() of build-arm64.py has ended, the nested build having   *)
(* succeeded or failed, production or dev with its own stash and restore,  *)
(* config.json holds the content it had before the run.                    *)
C26_Arm64ManifestRestored ==
    arm64.pc = "done" => configFile = arm64.before[1]

PruningRan ==
    \E i \in DOMAIN stages : stages[i] \in {"cleanup_old_releases", "cleanup_old_dev_builds"}

(* C27: after the pruning step of a build, production or dev, whatever the *)
(* modification times of the artifacts of the output directory, the file   *)
(* at the artifact path of the build is in the directory.                  *)
C27_OwnArtifactKept ==
    (BuildEnded /\ PruningRan) =>
        \E g \in {args.config["general"]} :
            \E f \in destination.files :
                f.name = apk_filename(g["package"], g["version"], g["architecture"])

(* C28: between production builds into one directory, each of which may    *)
(* have failed at any stage, every checksum file of the directory names an *)
(* artifact of the directory and holds the SHA-256 digest of the bytes     *)
(* that artifact has now.                                                  *)
C28_SidecarsMatch ==
    pc \in {"idle", "done"} =>
        \A d \in {f \in destination.files : EndsWith(f.name, ShaSuffix)} :
            \E s \in checksums :
                /\ s.file = d.name
                /\ \E f \in destination.files :
                       f.name = s.text.name /\ s.text.checksum = sha256(f)

(* C29: over a sequence of dev builds, the manifest version edited between *)
(* them or not, no two builds are given the same dev version string.       *)
C29_DevVersionsDistinct ==
    \A i, j \in DOMAIN issued :
        i < j => issued[i].version_override # issued[j].version_override

(* validate_config prints the warning about the format of this version *)
VersionWarned(version) ==
    Msg("warn", "Version may not follow semantic versioning", "version")
        \in config_printed([general |-> set_key(General, "version", version)], FALSE)

(* C30: on a manifest whose version validate_config lets through without   *)
(* the warning about its format, parse_version does not raise, so          *)
(* --update, --check, --bump-revision and --current do not fail on it.     *)
C30_ValidatedVersionParses ==
    (last.op \in {"update", "check", "bump", "current"} /\ ~VersionWarned(last.before))
        => last.ok

(* what the payload archive leaves out: a path with a part named CONTROL   *)
(* or bin, unless it lies in the CONTROL of the package root, whose files  *)
(* the control archive carries                                             *)
Pruned(n) ==
    /\ n.parts[1] # CONTROL_DIR
    /\ \E i \in DOMAIN n.parts : n.parts[i] \in EXCLUDE_DIRS

(* C21: after a build of a package tree T and extract_apk() of the         *)
(* artifact, every file and directory of T outside the pruned set is in    *)
(* the output directory at the same relative path (the control files under *)
(* CONTROL), and every mode there is 0755 or 0644 whatever the permissions *)
(* of T.                                                                   *)
C21_RoundTrip ==
    (pc = "done" /\ args.cmd = "extract" /\ exitStatus = 0 /\ extracted # None) =>
        /\ \A n \in {x \in apk_dir : x.kind \in {"file", "dir"} /\ ~Pruned(x)} :
               \E e \in extracted[1] : e.parts = n.parts /\ e.kind = n.kind
        /\ \A e \in extracted[1] : e.mode \in {"0755", "0644"}

(* the steps of a successful build in their order, the two of the finally *)
(* last                                                                    *)
StageOrder(override, dev, finally) ==
    <<"validate", "get_config", "validate_config">>
        \o (IF override THEN <<"stash manifest", "write override">> ELSE <<>>)
        \o <<"mkdir", "mkdtemp", "update_changelog", "copy_license", "convert_line_endings",
             "apkg-version", "control.tar.gz", "data.tar.gz", "zip">>
        \o (IF dev THEN <<"cleanup_old_dev_builds">>
            ELSE <<"checksum", "checksum file", "cleanup_old_releases">>)
        \o SelectSeq(finally, LAMBDA step : override \/ step # "restore manifest")

(* C22, as the spec has it: in every successful build the stages occur in  *)
(* the order validation, manifest read and validation, stash and override, *)
(* changelog, license, line endings, version marker, control archive,      *)
(* payload archive, ZIP envelope, checksum with sidecar and production     *)
(* pruning or dev pruning, then the deletion of the workspace, and last    *)
(* the restoration of the manifest.                                        *)
C22_WorkspaceThenManifest ==
    BuildSucceeded =>
        stages = StageOrder(args.version_override # None, args.is_dev_build,
                            <<"rmtree temp_dir", "restore manifest">>)

(* C22: in every successful build the stages occur in that order up to the *)
(* pruning; then the manifest is restored, and last the workspace is       *)
(* deleted.                                                                *)
C22_ManifestThenWorkspace ==
    BuildSucceeded =>
        stages = StageOrder(args.version_override # None, args.is_dev_build,
                            <<"restore manifest", "rmtree temp_dir">>)

(* a dev build under 4.6.5.dev1 has succeeded: the manifest was stashed    *)
(* after the validations, and restored before the workspace was removed    *)
C22_Witness ==
    /\ BuildSucceeded
    /\ args.is_dev_build /\ args.version_override = Some(DevVersion)
    /\ stages = <<"validate", "get_config", "validate_config", "stash manifest",
                  "write override", "mkdir", "mkdtemp", "update_changelog", "copy_license",
                  "convert_line_endings", "apkg-version", "control.tar.gz", "data.tar.gz",
                  "zip", "cleanup_old_dev_builds", "restore manifest", "rmtree temp_dir">>

(***************************************************************************)
(* Claims about the Version Resolver.                                      *)
(***************************************************************************)
IsBaseVersion(b) ==          \* X.Y.Z
    Let(Split(b, ".") \o <<>>, LAMBDA p : Len(p) = 3 /\ \A i \in 1..3 : AllDigits(p[i]))

(* the next version of base B after the history H, as the specification    *)
(* words it                                                                *)
NextVersionOf(H, B) ==
    LET revs == {RevOf(t, B) : t \in {u \in H : HasBase(u, B)}}
    IN  IF revs = {} THEN B ELSE WithRev(B, Max(revs) + 1)

Resolved == last.op \in {"get-next", "update", "set"} /\ last.ok

(* C3: get_next_version(B), for a base version B and the history H that    *)
(* the tag listing returned, is B when no tag of H has base B, and else    *)
(* B.r(m+1), m the greatest revision among the tags of H of base B, a tag  *)
(* without suffix counting as revision 0; tags of other bases do not       *)
(* matter.                                                                 *)
C3_NextVersion ==
    (Resolved /\ IsBaseVersion(last.base))
        => last.result = NextVersionOf(Range(last.listing), last.base)

C3_Witness ==
    /\ last.op = "get-next" /\ last.ok
    /\ last.base = V465
    /\ Range(last.listing) = {TagOf(WithRev(V465, 2)), TagOf(WithRev(V466, 1))}
    /\ last.result = WithRev(V465, 3)

(* C5 as claimed: the version returned by get_next_version is never a      *)
(* published one: 'v' + result is not a tag of the repository.             *)
C5_NeverPublished == Resolved => TagOf(last.result) \notin repoTags

(* C5, amended: for a base version X.Y.Z, and when the tag listing         *)
(* succeeded, 'v' + result is not a tag of the repository.                 *)
C5_NeverPublishedWhenListed ==
    (Resolved /\ last.gitOk /\ IsBaseVersion(last.base))
        => TagOf(last.result) \notin repoTags

C5_Witness ==
    /\ last.op = "update" /\ last.ok /\ last.gitOk
    /\ last.before = V465
    /\ TagOf(V465) \in repoTags
    /\ manifestVersion = WithRev(V465, 1)

(* C6 as claimed: parse_version(format_version(base, rev)) = (base, rev)   *)
(* for rev in {None, 0, 1, 50}.                                            *)
C6_RoundTrip ==
    last.op = "format-parse"
        => last.parsed = [ok |-> TRUE, base |-> last.base, revision |-> last.rev]

(* C6, amended: parse_version(format_version(base, rev)) = (base, rev) for *)
(* rev in {None, 1, 50}, and (base, None) for rev = 0.                     *)
C6_RoundTripButZero ==
    last.op = "format-parse"
        => last.parsed = [ok |-> TRUE, base |-> last.base,
                          revision |-> IF last.rev = Some(0) THEN None ELSE last.rev]

C6_Witness ==
    /\ last.op = "format-parse"
    /\ last.rev = Some(50)
    /\ last.base = <<"1", "2", ".", "0", ".", "0", "7">>
    /\ last.parsed.revision = Some(50)

(* C7: --bump-revision writes format(base, r + 1), (base, r) the parse of  *)
(* the current manifest version, an absent r counting as 0, whatever the   *)
(* release history holds.                                                  *)
C7_BumpIgnoresHistory ==
    (last.op = "bump" /\ last.ok)
        => LET pv == parse_version(last.before)
           IN  /\ manifestVersion = WithRev(pv.base, OrZero(pv.revision) + 1)
               /\ last.result = manifestVersion

C7_Witness ==
    /\ last.op = "bump" /\ last.ok
    /\ last.before = V465
    /\ manifestVersion = WithRev(V465, 1)
    /\ TagOf(WithRev(V465, 1)) \in repoTags

(* C4: while each version returned for base B is published before the next *)
(* call, the calls return B, B.r1, B.r2, ... when the repository held no   *)
(* tag of base B at the first call, and in any case revisions that grow by *)
(* one; the first call for a base without tags returns the base itself,    *)
(* whatever the tags of other bases.                                       *)
C4_RevisionSequence ==
    \A B \in Bases :
        chain[B].n >= 1 =>
            LET k == chain[B].start + chain[B].n - 1
            IN  /\ chain[B].last = IF k = 0 THEN B ELSE WithRev(B, k)
                /\ chain[B].fresh => chain[B].start = 0

C4_Witness ==
    /\ chain[V465].n = 3 /\ chain[V465].fresh
    /\ chain[V465].last = WithRev(V465, 2)
    /\ chain[V466].n = 1 /\ chain[V466].fresh
    /\ chain[V466].last = V466
    /\ TagOf(WithRev(V465, 1)) \in repoTags

====
